---------------------------- MODULE Spec2Model ----------------------------
(***************************************************************************)
(* A model of the diff-to-comment pipeline of code-review-llm:             *)
(*   parseDiff            (src/src/utils/diffParser.js)                    *)
(*   parseReviewResponse  (src/src/services/llmService.js)                 *)
(*   findExistingComment  (src/unnamed/part_000, the GitHubAPI class)      *)
(*   reviewPullRequest    (src/src/App.jsx, the ReviewService class)       *)
(*                                                                         *)
(* Text is modelled as a sequence of tokens.  A token is a string that the *)
(* code never looks inside: a single character ("+", "-", " ", ".", a      *)
(* digit) or a keyword the code tests as a whole ("diff --git", "@@").     *)
(* A diff is a sequence of lines (the result of split('\n')), a line is a  *)
(* sequence of tokens.                                                     *)
(***************************************************************************)
EXTENDS Integers, Sequences, FiniteSets, TLC

VARIABLES
    \* parseDiff
    parser,     \* the locals of the loop (files, currentFile, currentHunk, ...)
    consumed,   \* number of input lines read so far (the index i)
    pstate,     \* "scanning" inside the loop, "returned" after it
    \* parseReviewResponse
    rawResponse,\* the raw response text
    limit,      \* config.review.maxComments
    normalized, \* the array returned
    nstate,     \* "called", "returned"
    \* reviewPullRequest
    pc,               \* where the run stands (the await it is suspended at)
    enabled,          \* config.enabled
    diffText,         \* the diff text, as lines
    excludePatterns,  \* config.review.excludePatterns
    filesReviewed,    \* reviewableChanges.length
    commitSha,        \* prInfo.head.sha
    existingComments, \* the review comments fetched from the hosting service
    llmComments,      \* the comments the generation service proposed
    idx,              \* position of the for-of loop in llmComments
    postedComments,
    skippedComments,
    calls,            \* the calls made so far to the collaborators and to the
                      \* timer, in order, each with its outcome ("pending"
                      \* until it settles, then "ok" or "error")
    result,           \* the value returned to the caller
    \* checkCustomRules
    ruleFile,    \* the file checked
    customRules, \* the rules, in order
    ruleIdx,     \* position of forEach in customRules
    lastIndex,   \* regex.lastIndex of the rule at ruleIdx
    violations,  \* the array violations
    rstate,      \* "checking", "returned"
    \* the preparation of the review request: filterFiles,
    \* extractReviewableChanges, buildReviewPrompt
    prepFiles,    \* the parsed files
    prepPatterns, \* config.review.excludePatterns
    prepFiltered, \* filteredFiles
    prepChanges,  \* reviewableChanges
    prepPrompt,   \* the prompt built for the generation service
    prepState,    \* the function to apply next; "done", "raised"
    \* POST /slack/interactive
    pulls,          \* the hosting service: the author's login of each pull request
    payload,        \* the parsed payload: action_id, value, user.name
    prAuthor,       \* the local prAuthor (null until the details are fetched)
    approveResult,  \* result.success of approveGitHubPR / commentOnGitHubPR
    githubRequests, \* the POST requests submitted to the hosting service
    slackTexts,     \* the messages posted to response_url
    httpStatus,     \* the status sent back to Slack (0: none yet)
    slackPc         \* the await the handler is suspended at

parseVars == <<parser, consumed, pstate>>

normVars == <<rawResponse, limit, normalized, nstate>>

reviewVars ==
    <<pc, enabled, diffText, excludePatterns, filesReviewed, commitSha,
      existingComments, llmComments, idx, postedComments, skippedComments,
      calls, result>>

rulesVars == <<ruleFile, customRules, ruleIdx, lastIndex, violations, rstate>>

prepVars == <<prepFiles, prepPatterns, prepFiltered, prepChanges, prepPrompt, prepState>>

slackVars ==
    <<pulls, payload, prAuthor, approveResult, githubRequests, slackTexts,
      httpStatus, slackPc>>

vars == <<parseVars, normVars, reviewVars, rulesVars, prepVars, slackVars>>

(***************************************************************************)
(* Bounds of the model.                                                    *)
(***************************************************************************)
MaxLines == 5

(***************************************************************************)
(* Generic helpers on token sequences.                                     *)
(***************************************************************************)
Digits == {"0", "1", "2", "3", "4", "5", "6", "7", "8", "9"}

DigitVal(d) ==
    CASE d = "0" -> 0 [] d = "1" -> 1 [] d = "2" -> 2 [] d = "3" -> 3
      [] d = "4" -> 4 [] d = "5" -> 5 [] d = "6" -> 6 [] d = "7" -> 7
      [] d = "8" -> 8 [] d = "9" -> 9

\* parseInt on a non-empty run of decimal digits
RECURSIVE ParseInt(_)
ParseInt(ds) ==
    IF ds = <<>> THEN 0
    ELSE 10 * ParseInt(SubSeq(ds, 1, Len(ds) - 1)) + DigitVal(ds[Len(ds)])

\* String.prototype.startsWith, for a prefix given as tokens
StartsWith(line, prefix) ==
    /\ Len(line) >= Len(prefix)
    /\ SubSeq(line, 1, Len(prefix)) = prefix

\* the first index >= p of line that holds no digit (Len(line)+1 if none)
RECURSIVE DigitsEnd(_, _)
DigitsEnd(line, p) ==
    IF p > Len(line) \/ line[p] \notin Digits THEN p ELSE DigitsEnd(line, p + 1)

At(line, p) == IF p >= 1 /\ p <= Len(line) THEN line[p] ELSE "<eol>"

RECURSIVE TrimLeft(_)
TrimLeft(s) == IF s # <<>> /\ s[1] = " " THEN TrimLeft(Tail(s)) ELSE s

RECURSIVE TrimRight(_)
TrimRight(s) ==
    IF s # <<>> /\ s[Len(s)] = " " THEN TrimRight(SubSeq(s, 1, Len(s) - 1)) ELSE s

Trim(s) == TrimRight(TrimLeft(s))

(***************************************************************************)
(* parseDiff.  Objects that the code shares by reference (a FileChange is  *)
(* referenced by currentFile and by the files array, a hunk by currentHunk *)
(* and by its file's hunks array) live in heaps and are named by their     *)
(* index; 0 is null.                                                       *)
(***************************************************************************)
Null == 0

\* line.match(/diff --git a\/(.+) b\/(.+)/): the greedy first group takes
\* the longest old path that still leaves " b/" and a non-empty new path.
HeaderSplits(line) ==
    { q \in 4..(Len(line) - 1) : line[q] = " b/" }

HeaderMatches(line) ==
    /\ Len(line) >= 2
    /\ line[1] = "diff --git"
    /\ line[2] = " a/"
    /\ HeaderSplits(line) # {}

HeaderSplit(line) == CHOOSE q \in HeaderSplits(line) : \A r \in HeaderSplits(line) : r <= q

NewFile(line) ==
    [ filename    |-> SubSeq(line, HeaderSplit(line) + 1, Len(line)),
      oldFilename |-> SubSeq(line, 3, HeaderSplit(line) - 1),
      hunks       |-> <<>>,
      additions   |-> 0,
      deletions   |-> 0,
      changes     |-> <<>> ]

\* line.match(/@@ -(\d+),?(\d*) \+(\d+),?(\d*) @@(.*)/) on a line that
\* starts with "@@"; the positions of the four digit groups.
HunkPos(line) ==
    LET s1 == 3
        e1 == DigitsEnd(line, s1)
        s2 == IF At(line, e1) = "," THEN e1 + 1 ELSE e1
        e2 == DigitsEnd(line, s2)
        s3 == e2 + 1
        e3 == DigitsEnd(line, s3)
        s4 == IF At(line, e3) = "," THEN e3 + 1 ELSE e3
        e4 == DigitsEnd(line, s4)
    IN  [ s1 |-> s1, e1 |-> e1, s2 |-> s2, e2 |-> e2,
          s3 |-> s3, e3 |-> e3, s4 |-> s4, e4 |-> e4 ]

HunkMatches(line) ==
    LET p == HunkPos(line)
    IN  /\ At(line, 1) = "@@"
        /\ At(line, 2) = " -"
        /\ p.e1 > p.s1
        /\ At(line, p.e2) = " +"
        /\ p.e3 > p.s3
        /\ At(line, p.e4) = " @@"

\* parseInt(hunkMatch[k] || '1')
LengthOr1(ds) == IF ds = <<>> THEN 1 ELSE ParseInt(ds)

NewHunk(line) ==
    LET p == HunkPos(line)
    IN  [ oldStart  |-> ParseInt(SubSeq(line, p.s1, p.e1 - 1)),
          oldLength |-> LengthOr1(SubSeq(line, p.s2, p.e2 - 1)),
          newStart  |-> ParseInt(SubSeq(line, p.s3, p.e3 - 1)),
          newLength |-> LengthOr1(SubSeq(line, p.s4, p.e4 - 1)),
          context   |-> Trim(SubSeq(line, p.e4 + 1, Len(line))),
          lines     |-> <<>> ]

IsFileHeader(line) == StartsWith(line, <<"diff --git">>)

IsMetadata(line) ==
    \/ StartsWith(line, <<"index ">>)
    \/ StartsWith(line, <<"new file mode">>)
    \/ StartsWith(line, <<"deleted file mode">>)
    \/ StartsWith(line, <<"-", "-", "-">>)
    \/ StartsWith(line, <<"+", "+", "+">>)

IsHunkHeader(line) == StartsWith(line, <<"@@">>)

\* the locals of parseDiff before the loop
ParserInit ==
    [ files       |-> <<>>,
      fileObjs    |-> <<>>,
      hunkObjs    |-> <<>>,
      currentFile |-> Null,
      currentHunk |-> Null,
      oldLineNum  |-> 0,
      newLineNum  |-> 0 ]

\* the branch "if (line.startsWith('diff --git'))"
OnFileHeader(ps, line) ==
    LET pushed == IF ps.currentFile # Null
                  THEN Append(ps.files, ps.currentFile) ELSE ps.files
    IN  IF HeaderMatches(line)
        THEN [ps EXCEPT !.files = pushed,
                        !.fileObjs = Append(ps.fileObjs, NewFile(line)),
                        !.currentFile = Len(ps.fileObjs) + 1]
        ELSE [ps EXCEPT !.files = pushed]

\* OnHunkHeader with the counters seeded the wrong way round
OnHunkHeaderSwapped(ps, line) ==
    IF HunkMatches(line)
    THEN LET h  == NewHunk(line)
             id == Len(ps.hunkObjs) + 1
         IN  [ps EXCEPT !.hunkObjs = Append(ps.hunkObjs, h),
                        !.currentHunk = id,
                        !.oldLineNum = h.newStart,
                        !.newLineNum = h.oldStart,
                        !.fileObjs =
                            IF ps.currentFile # Null
                            THEN [ps.fileObjs EXCEPT ![ps.currentFile].hunks =
                                      Append(@, id)]
                            ELSE ps.fileObjs]
    ELSE ps

\* the branch "if (line.startsWith('@@'))"
OnHunkHeader(ps, line) ==
    IF HunkMatches(line)
    THEN LET h  == NewHunk(line)
             id == Len(ps.hunkObjs) + 1
         IN  [ps EXCEPT !.hunkObjs = Append(ps.hunkObjs, h),
                        !.currentHunk = id,
                        !.oldLineNum = h.oldStart,
                        !.newLineNum = h.newStart,
                        !.fileObjs =
                            IF ps.currentFile # Null
                            THEN [ps.fileObjs EXCEPT ![ps.currentFile].hunks =
                                      Append(@, id)]
                            ELSE ps.fileObjs]
    ELSE ps

ChangeType(line) == At(line, 1)

NewChange(ps, line) ==
    LET changeType == ChangeType(line)
    IN  [ type          |-> IF changeType = "+" THEN "addition"
                            ELSE IF changeType = "-" THEN "deletion"
                            ELSE "context",
          content       |-> IF line = <<>> THEN <<>> ELSE Tail(line),
          oldLineNumber |-> IF changeType = "+" THEN <<>> ELSE <<ps.oldLineNum>>,
          newLineNumber |-> IF changeType = "-" THEN <<>> ELSE <<ps.newLineNum>> ]

\* OnContent with every line that is no deletion counted as an addition
OnContentMiscounted(ps, line) ==
    IF ps.currentFile # Null /\ ps.currentHunk # Null
    THEN LET change     == NewChange(ps, line)
             changeType == ChangeType(line)
         IN  [ps EXCEPT
                !.hunkObjs = [@ EXCEPT ![ps.currentHunk].lines = Append(@, change)],
                !.fileObjs = [@ EXCEPT
                    ![ps.currentFile].changes = Append(@, change),
                    ![ps.currentFile].additions =
                        IF changeType # "-" THEN @ + 1 ELSE @,
                    ![ps.currentFile].deletions =
                        IF changeType = "-" THEN @ + 1 ELSE @],
                !.newLineNum = IF changeType = "-" THEN @ ELSE @ + 1,
                !.oldLineNum = IF changeType = "+" THEN @ ELSE @ + 1]
    ELSE ps

\* the branch "if (currentFile && currentHunk)"
OnContent(ps, line) ==
    IF ps.currentFile # Null /\ ps.currentHunk # Null
    THEN LET change     == NewChange(ps, line)
             changeType == ChangeType(line)
         IN  [ps EXCEPT
                !.hunkObjs = [@ EXCEPT ![ps.currentHunk].lines = Append(@, change)],
                !.fileObjs = [@ EXCEPT
                    ![ps.currentFile].changes = Append(@, change),
                    ![ps.currentFile].additions =
                        IF changeType = "+" THEN @ + 1 ELSE @,
                    ![ps.currentFile].deletions =
                        IF changeType = "-" THEN @ + 1 ELSE @],
                !.newLineNum = IF changeType = "-" THEN @ ELSE @ + 1,
                !.oldLineNum = IF changeType = "+" THEN @ ELSE @ + 1]
    ELSE ps

\* one iteration of the loop over diffLines
ParseLine(ps, line) ==
    IF IsFileHeader(line) THEN OnFileHeader(ps, line)
    ELSE IF IsMetadata(line) THEN ps
    ELSE IF IsHunkHeader(line) THEN OnHunkHeader(ps, line)
    ELSE OnContent(ps, line)

\* "Add the last file" after the loop
ParseEnd(ps) ==
    IF ps.currentFile # Null
    THEN [ps EXCEPT !.files = Append(ps.files, ps.currentFile)]
    ELSE ps

RECURSIVE ParseLines(_, _)
ParseLines(ps, lines) ==
    IF lines = <<>> THEN ps ELSE ParseLines(ParseLine(ps, Head(lines)), Tail(lines))

\* diffText.trim() === '' : every line holds blanks only
IsBlankText(lines) == \A k \in 1..Len(lines) : Trim(lines[k]) = <<>>

\* the array parseDiff returns: the FileChange objects of files, in order
ResultFiles(ps) == [k \in 1..Len(ps.files) |-> ps.fileObjs[ps.files[k]]]

\* FileChange.hunks with the hunk objects in place of their references
HunksOf(ps, f) == [k \in 1..Len(f.hunks) |-> ps.hunkObjs[f.hunks[k]]]

parseDiff(lines) ==
    IF IsBlankText(lines) THEN <<>>
    ELSE ResultFiles(ParseEnd(ParseLines(ParserInit, lines)))


(***************************************************************************)
(* Each specification below runs one operation; the state of the others    *)
(* stays as it is before they are called.                                  *)
(***************************************************************************)
ParseIdle ==
    /\ parser = ParserInit
    /\ consumed = 0
    /\ pstate = "idle"

NormIdle ==
    /\ rawResponse = <<>>
    /\ limit = 0
    /\ normalized = <<>>
    /\ nstate = "idle"

RulesIdle ==
    /\ ruleFile = [changes |-> <<>>]
    /\ customRules = <<>>
    /\ ruleIdx = 1
    /\ lastIndex = 0
    /\ violations = <<>>
    /\ rstate = "idle"

PrepIdle ==
    /\ prepFiles = <<>>
    /\ prepPatterns = <<>>
    /\ prepFiltered = <<>>
    /\ prepChanges = <<>>
    /\ prepPrompt = <<>>
    /\ prepState = "idle"

NoPayload == [action_id |-> "", value |-> <<>>, user |-> <<>>]

SlackIdle ==
    /\ pulls = <<>>
    /\ payload = NoPayload
    /\ prAuthor = <<>>
    /\ approveResult = "none"
    /\ githubRequests = <<>>
    /\ slackTexts = <<>>
    /\ httpStatus = 0
    /\ slackPc = "idle"

NoResult == [pending |-> TRUE]

ReviewIdle ==
    /\ pc = "idle"
    /\ enabled = TRUE
    /\ diffText = <<>>
    /\ excludePatterns = <<>>
    /\ filesReviewed = 0
    /\ commitSha = <<>>
    /\ existingComments = <<>>
    /\ llmComments = <<>>
    /\ idx = 0
    /\ postedComments = <<>>
    /\ skippedComments = <<>>
    /\ calls = <<>>
    /\ result = NoResult

(***************************************************************************)
(* The diff parser run line by line on an arbitrary input text.            *)
(***************************************************************************)
FileA == <<"a", ".", "j", "s">>
FileB == <<"b", ".", "j", "s">>

HeaderLine(old, new) == <<"diff --git", " a/">> \o old \o <<" b/">> \o new

\* the lines an input text is made of
DiffLineSet ==
    { HeaderLine(FileA, FileA),
      HeaderLine(FileB, FileB),
      <<"diff --git", " ", "x">>,                                \* no a/ b/ paths
      <<"index ", "1">>,
      <<"-", "-", "-", " ", "a">>,
      <<"+", "+", "+", " ", "b">>,
      <<"@@", " -", "1", ",", "2", " +", "3", ",", "4", " @@">>,
      <<"@@", " -", "1", "0", " +", "2", "0", " @@", " ", "f">>, \* lengths omitted
      <<"@@", " ", "x">>,                                        \* no ranges
      <<"+", "x">>,
      <<"-", "y">>,
      <<" ", "z">>,
      <<>> }

ParseInit ==
    /\ parser = ParserInit
    /\ consumed = 0
    /\ pstate = "scanning"

ReadLine(line) ==
    /\ pstate = "scanning"
    /\ consumed < MaxLines
    /\ parser' = ParseLine(parser, line)
    /\ consumed' = consumed + 1
    /\ UNCHANGED <<pstate, normVars, reviewVars, rulesVars, prepVars, slackVars>>

ReadFileHeader == \E line \in DiffLineSet : IsFileHeader(line) /\ ReadLine(line)

ReadMetadata ==
    \E line \in DiffLineSet :
        ~IsFileHeader(line) /\ IsMetadata(line) /\ ReadLine(line)

ReadHunkHeader ==
    \E line \in DiffLineSet :
        ~IsFileHeader(line) /\ ~IsMetadata(line) /\ IsHunkHeader(line) /\ ReadLine(line)

ReadContent ==
    \E line \in DiffLineSet :
        /\ ~IsFileHeader(line) /\ ~IsMetadata(line) /\ ~IsHunkHeader(line)
        /\ ReadLine(line)

\* end of input: the loop ends, the last file is added, files is returned
ParseReturn ==
    /\ pstate = "scanning"
    /\ parser' = ParseEnd(parser)
    /\ pstate' = "returned"
    /\ UNCHANGED <<consumed, normVars, reviewVars, rulesVars, prepVars, slackVars>>

ParseNext ==
    \/ ReadFileHeader
    \/ ReadMetadata
    \/ ReadHunkHeader
    \/ ReadContent
    \/ ParseReturn

InitDiff == ParseInit /\ NormIdle /\ ReviewIdle /\ RulesIdle /\ PrepIdle /\ SlackIdle

SpecDiff == InitDiff /\ [][ParseNext]_vars


(***************************************************************************)
(* parseReviewResponse.  The raw response of the generation service is a   *)
(* sequence of tokens, each a record with a kind k:                        *)
(*   "ws" a blank, "nl" a line break, "fence" three backticks, "json" the   *)
(*   fence tag,                                                            *)
(*   "[" "]" "," ":" punctuation,                                          *)
(*   "filename:" "File:" "line:" the words the fallback extractor looks    *)
(*   for, "word" any other run of letters (v its text),                    *)
(*   "num" a run of digits (v its digits),                                 *)
(*   "null", "str", "obj" a JSON null, string and object literal.          *)
(* An object literal carries the five fields the code reads and            *)
(* suggestion; a field is <<v>> when it holds the value v, and <<>> when   *)
(* it is missing (undefined) or null.                                      *)
(***************************************************************************)
Tok(kind) == [k |-> kind]
Word(text) == [k |-> "word", v |-> text]
Num(digits) == [k |-> "num", v |-> digits]
Str(text) == [k |-> "str", v |-> text]

Required == {"filename", "line", "severity", "category", "message"}

IsWhite(t) == t.k \in {"ws", "nl"}

RECURSIVE TrimTokensLeft(_)
TrimTokensLeft(s) == IF s # <<>> /\ IsWhite(s[1]) THEN TrimTokensLeft(Tail(s)) ELSE s

RECURSIVE TrimTokensRight(_)
TrimTokensRight(s) ==
    IF s # <<>> /\ IsWhite(s[Len(s)])
    THEN TrimTokensRight(SubSeq(s, 1, Len(s) - 1)) ELSE s

\* String.prototype.trim on a token text
TrimTokens(s) == TrimTokensRight(TrimTokensLeft(s))

\* The match of the fenced-block pattern (fence, optional json tag, blanks,
\* lazy interior, blanks, fence), searched anywhere in the text: the
\* leftmost fence that has a fence after it opens the block, the next fence
\* closes it.  The text of an object literal holds the fences of its
\* message string, so a fence is found at <<p, 0>>, the token p of the text,
\* or at <<p, i>>, the token i of the message of the object literal p.
MessageFences(t) ==
    IF t.k = "obj" /\ t.message # <<>>
    THEN {i \in 1..Len(t.message[1]) : t.message[1][i].k = "fence"}
    ELSE {}

FenceSites(text) ==
    {<<p, 0>> : p \in {q \in 1..Len(text) : text[q].k = "fence"}}
        \cup UNION { {<<p, i>> : i \in MessageFences(text[p])} : p \in 1..Len(text) }

SiteBefore(a, b) == a[1] < b[1] \/ (a[1] = b[1] /\ a[2] < b[2])

FirstSite(sites) == CHOOSE a \in sites : \A b \in sites \ {a} : SiteBefore(a, b)

FenceMatches(text) == Cardinality(FenceSites(text)) >= 2

\* The captured group.  A match that opens or closes inside an object
\* literal cuts that literal: what is left of it is a "fragment", which is
\* no JSON value.
FenceInterior(text) ==
    LET open  == FirstSite(FenceSites(text))
        close == FirstSite(FenceSites(text) \ {open})
    IN  IF open[1] = close[1]
        THEN LET msg  == text[open[1]].message[1]
                 from == IF msg[open[2] + 1].k = "json"
                         THEN open[2] + 2 ELSE open[2] + 1
             IN  TrimTokens(SubSeq(msg, from, close[2] - 1))
        ELSE LET head == IF open[2] > 0 THEN <<Tok("fragment")>> ELSE <<>>
                 from == IF open[2] = 0 /\ text[open[1] + 1].k = "json"
                         THEN open[1] + 2 ELSE open[1] + 1
                 tail == IF close[2] > 0 THEN <<Tok("fragment")>> ELSE <<>>
             IN  TrimTokens(head \o SubSeq(text, from, close[1] - 1) \o tail)

\* JSON.parse, for the JSON texts of the model: one literal, or an array of
\* literals; white space between tokens is insignificant.
IsLiteral(t) == t.k \in {"obj", "null", "num", "str"}

Significant(text) == SelectSeq(text, LAMBDA t : ~IsWhite(t))

IsLiteralList(s) ==
    \/ s = <<>>
    \/ /\ Len(s) % 2 = 1
       /\ \A p \in 1..Len(s) :
             IF p % 2 = 1 THEN IsLiteral(s[p]) ELSE s[p].k = ","

JsonParses(text) ==
    LET s == Significant(text)
    IN  \/ Len(s) = 1 /\ IsLiteral(s[1])
        \/ /\ Len(s) >= 2
           /\ s[1].k = "["
           /\ s[Len(s)].k = "]"
           /\ IsLiteralList(SubSeq(s, 2, Len(s) - 1))

JsonIsArray(text) == JsonParses(text) /\ Significant(text)[1].k = "["

\* the elements of the parsed array, in order
JsonElements(text) ==
    LET s == Significant(text)
    IN  [p \in 1..((Len(s) - 1) \div 2) |-> s[2 * p]]

\* comment[field] of an element: <<>> when undefined or null
Field(c, field) ==
    IF c.k # "obj" THEN <<>>
    ELSE CASE field = "filename" -> c.filename
           [] field = "line"     -> c.line
           [] field = "severity" -> c.severity
           [] field = "category" -> c.category
           [] field = "message"  -> c.message

\* validateComment: reading a field of null raises a TypeError
ValidateThrows(c) == c.k = "null"

validateComment(c) == \A field \in Required : Field(c, field) # <<>>

\* a slice that keeps the whole array
SliceKeepsAll(s, n) == s

\* Array.prototype.slice(0, n) for n >= 0
Slice(s, n) == SubSeq(s, 1, IF n < Len(s) THEN n ELSE Len(s))

(***************************************************************************)
(* extractCommentsFromText: the fallback, line by line.                    *)
(***************************************************************************)
RECURSIVE SplitLines(_)
SplitLines(text) ==
    LET breaks == {p \in 1..Len(text) : text[p].k = "nl"}
    IN  IF breaks = {} THEN <<text>>
        ELSE LET b == CHOOSE p \in breaks : \A q \in breaks : p <= q
             IN  <<SubSeq(text, 1, b - 1)>> \o SplitLines(SubSeq(text, b + 1, Len(text)))

IsFileIndicator(t) == t.k \in {"filename:", "File:"}

\* tokens whose text holds a colon, and the text before that colon
HasColon(t) ==
    \/ t.k \in {":", "filename:", "File:", "line:"}
    \/ t.k = "obj" /\ \E field \in Required : Field(t, field) # <<>>

Stem(t) ==
    CASE t.k = "filename:" -> <<Word("filename")>>
      [] t.k = "File:"     -> <<Word("File")>>
      [] t.k = "line:"     -> <<Word("line")>>
      [] t.k = "obj"       -> <<Word("{")>>
      [] OTHER             -> <<>>

ColonPositions(line) == {p \in 1..Len(line) : HasColon(line[p])}

\* the trimmed text between the first and the second colon of the line
FilenameOf(line) ==
    LET cs    == ColonPositions(line)
        first == CHOOSE p \in cs : \A q \in cs : p <= q
        rest  == cs \ {first}
    IN  IF rest = {} THEN TrimTokens(SubSeq(line, first + 1, Len(line)))
        ELSE LET second == CHOOSE p \in rest : \A q \in rest : p <= q
             IN  TrimTokens(SubSeq(line, first + 1, second - 1) \o Stem(line[second]))

\* the line-number pattern (line, optional colon, blanks, digits; any case):
\* the positions of the digits of its matches
IsLineWord(t) ==
    \/ t.k = "line:"
    \/ t.k = "word" /\ t.v \in {"line", "Line", "LINE"}

RECURSIVE SkipWhite(_, _)
SkipWhite(line, p) ==
    IF p <= Len(line) /\ line[p].k = "ws" THEN SkipWhite(line, p + 1) ELSE p

LineMatchPositions(line) ==
    { SkipWhite(line, p + 1) : p \in {q \in 1..Len(line) : IsLineWord(line[q])} }
        \cap {p \in 1..Len(line) : line[p].k = "num"}

NewCandidate(line) ==
    [ k          |-> "obj",
      filename   |-> <<FilenameOf(line)>>,
      line       |-> <<1>>,
      severity   |-> <<"medium">>,
      category   |-> <<"general">>,
      message    |-> <<<<>>>>,
      suggestion |-> <<<<>>>> ]

\* acc.comments is the array comments, acc.current is currentComment
\* (<<>> for null, <<c>> for the object c)
ExtractLine(acc, line) ==
    IF \E p \in 1..Len(line) : IsFileIndicator(line[p])
    THEN [ comments |-> acc.comments \o acc.current,
           current  |-> <<NewCandidate(line)>> ]
    ELSE IF (\E p \in 1..Len(line) : line[p].k = "line:") /\ acc.current # <<>>
    THEN LET ms == LineMatchPositions(line)
         IN  IF ms = {} THEN acc
             ELSE LET m == CHOOSE p \in ms : \A q \in ms : p <= q
                  IN  [acc EXCEPT !.current[1].line = <<ParseInt(line[m].v)>>]
    ELSE IF TrimTokens(line) # <<>> /\ acc.current # <<>>
    THEN [acc EXCEPT !.current[1].message =
              <<@[1] \o TrimTokens(line) \o <<Tok("ws")>>>>]
    ELSE acc

RECURSIVE ExtractLines(_, _)
ExtractLines(acc, lines) ==
    IF lines = <<>> THEN acc
    ELSE ExtractLines(ExtractLine(acc, Head(lines)), Tail(lines))

\* the array comments when the loop is over and the last candidate is pushed
ExtractedComments(response) ==
    LET acc == ExtractLines([comments |-> <<>>, current |-> <<>>], SplitLines(response))
    IN  acc.comments \o acc.current

extractCommentsFromText(response, maxComments) ==
    Slice(ExtractedComments(response), maxComments)

\* jsonText when JSON.parse is called
JsonText(response) ==
    LET trimmed == TrimTokens(response)
    IN  IF FenceMatches(trimmed) THEN FenceInterior(trimmed) ELSE trimmed

\* the try block of parseReviewResponse reaches its return statement
StructuredPath(response) ==
    /\ JsonIsArray(JsonText(response))
    /\ \A p \in 1..Len(JsonElements(JsonText(response))) :
           ~ValidateThrows(JsonElements(JsonText(response))[p])

\* comments.filter(validateComment)
KeptComments(response) == SelectSeq(JsonElements(JsonText(response)), validateComment)

parseReviewResponse(response, maxComments) ==
    IF StructuredPath(response)
    THEN Slice(KeptComments(response), maxComments)
    ELSE extractCommentsFromText(response, maxComments)

(***************************************************************************)
(* filterFiles and extractReviewableChanges.                               *)
(***************************************************************************)
\* new RegExp('^' + translated glob + '$').test(name), for a glob made of
\* letters, "/", ".", "*", "?" and "+": "." is escaped to a literal dot, "*"
\* becomes ".*" and "?" becomes "."; "+" is left as it is and so repeats
\* what stands before it, one or more times.
\* The constructor throws ("nothing to repeat") when a "+" has nothing
\* before it, or a quantifier.
GlobCompiles(pattern) ==
    \A i \in 1..Len(pattern) :
        pattern[i] = "+" => (i > 1 /\ pattern[i - 1] \notin {"*", "+"})

RECURSIVE GlobMatch(_, _)
GlobMatch(pattern, name) ==
    IF pattern = <<>> THEN name = <<>>
    ELSE IF Len(pattern) >= 2 /\ pattern[2] = "+"
    THEN /\ name # <<>>
         /\ (Head(pattern) = "?" \/ Head(pattern) = Head(name))
         /\ \/ GlobMatch(Tail(Tail(pattern)), Tail(name))
            \/ GlobMatch(pattern, Tail(name))
    ELSE IF Head(pattern) = "*"
    THEN \/ GlobMatch(Tail(pattern), name)
         \/ name # <<>> /\ GlobMatch(pattern, Tail(name))
    ELSE IF Head(pattern) = "?"
    THEN name # <<>> /\ GlobMatch(Tail(pattern), Tail(name))
    ELSE name # <<>> /\ Head(name) = Head(pattern) /\ GlobMatch(Tail(pattern), Tail(name))

\* filterFiles throws: some file reaches a pattern that does not compile,
\* no pattern before it having matched the file
FilterFilesThrows(files, patterns) ==
    \E k \in 1..Len(files), p \in 1..Len(patterns) :
        /\ ~GlobCompiles(patterns[p])
        /\ \A q \in 1..(p - 1) :
               GlobCompiles(patterns[q]) /\ ~GlobMatch(patterns[q], files[k].filename)

filterFiles(files, patterns) ==
    IF patterns = <<>> THEN files
    ELSE SelectSeq(files, LAMBDA file :
             ~\E p \in 1..Len(patterns) :
                 GlobMatch(patterns[p], file.filename))

IsAddition(change) == change.type = "addition"

\* parts.join('\n') on token texts
RECURSIVE JoinLines(_)
JoinLines(parts) ==
    IF parts = <<>> THEN <<>>
    ELSE IF Len(parts) = 1 THEN parts[1]
    ELSE parts[1] \o <<"\n">> \o JoinLines(Tail(parts))

\* values.filter(Boolean) on line numbers: null and 0 are dropped
RECURSIVE FilterBoolean(_)
FilterBoolean(values) ==
    IF values = <<>> THEN <<>>
    ELSE (IF Head(values) = <<>> \/ Head(values) = <<0>> THEN <<>> ELSE Head(values))
             \o FilterBoolean(Tail(values))

ReviewableChange(file) ==
    LET addedLines == SelectSeq(file.changes, IsAddition)
    IN  [ filename    |-> file.filename,
          additions   |-> file.additions,
          deletions   |-> file.deletions,
          addedLines  |-> addedLines,
          content     |-> JoinLines([k \in 1..Len(addedLines) |-> addedLines[k].content]),
          lineNumbers |-> FilterBoolean(
                              [k \in 1..Len(addedLines) |-> addedLines[k].newLineNumber]) ]

\* a test that passes every file that has changes of any type
HasChanges(file) == file.changes # <<>>

HasAdditions(file) == SelectSeq(file.changes, IsAddition) # <<>>

extractReviewableChanges(files) ==
    LET kept == SelectSeq(files, HasAdditions)
    IN  [k \in 1..Len(kept) |-> ReviewableChange(kept[k])]

(***************************************************************************)
(* GitHubAPI.findExistingComment.  A login is a sequence of tokens; the    *)
(* token "bot" is the substring the code looks for.                        *)
(***************************************************************************)
IncludesBot(login) == \E p \in 1..Len(login) : login[p] = "bot"

IsExistingAt(comment, path, line) ==
    /\ comment.path = path
    /\ comment.line = line
    /\ IncludesBot(comment.user.login)

\* findExistingComment without the test of the author's login
findExistingCommentAnyAuthor(existing, path, line) ==
    LET hits == {p \in 1..Len(existing) :
                     existing[p].path = path /\ existing[p].line = line}
    IN  IF hits = {} THEN <<>>
        ELSE <<existing[CHOOSE p \in hits : \A q \in hits : p <= q]>>

\* a search that returns the last comment that fits
findExistingCommentLast(existing, path, line) ==
    LET hits == {p \in 1..Len(existing) : IsExistingAt(existing[p], path, line)}
    IN  IF hits = {} THEN <<>>
        ELSE <<existing[CHOOSE p \in hits : \A q \in hits : p >= q]>>

\* <<>> is null, <<c>> the comment found
findExistingComment(existing, path, line) ==
    LET hits == {p \in 1..Len(existing) : IsExistingAt(existing[p], path, line)}
    IN  IF hits = {} THEN <<>>
        ELSE <<existing[CHOOSE p \in hits : \A q \in hits : p <= q]>>

(***************************************************************************)
(* The response normalizer run on arbitrary raw responses.                 *)
(***************************************************************************)
MaxElements == 3
MaxLimit == 3

\* all sequences over S of length at most n
RECURSIVE SeqsUpTo(_, _)
SeqsUpTo(S, n) ==
    IF n = 0 THEN {<<>>}
    ELSE SeqsUpTo(S, n - 1) \cup {Append(q, x) : q \in SeqsUpTo(S, n - 1), x \in S}

\* an object literal with the fields given; <<>> for a field left out
Obj(filename, line, severity, category, message) ==
    [ k          |-> "obj",
      filename   |-> filename,
      line       |-> line,
      severity   |-> severity,
      category   |-> category,
      message    |-> message,
      suggestion |-> <<>> ]

ProposedComment(filename, line) ==
    Obj(<<filename>>, <<line>>, <<"low">>, <<"bugs">>, <<<<Word("m")>>>>)

\* the array elements tried: complete comments, comments with a missing or
\* null field, and elements that are no objects
ElementSet ==
    { ProposedComment(FileA, 1),
      ProposedComment(FileA, 2),
      Obj(<<FileA>>, <<>>, <<"low">>, <<"bugs">>, <<<<Word("m")>>>>),
      Obj(<<FileA>>, <<1>>, <<"low">>, <<"bugs">>, <<>>),
      Obj(<<FileA>>, <<1>>, <<"low">>, <<"bugs">>,
          <<<<Word("m"), Tok("fence"), Word("x"), Tok("fence")>>>>),
      Tok("null"),
      Num(<<"5">>),
      Str("s") }

RECURSIVE CommaSeparated(_)
CommaSeparated(elements) ==
    IF elements = <<>> THEN <<>>
    ELSE IF Len(elements) = 1 THEN <<elements[1]>>
    ELSE <<elements[1], Tok(","), Tok("ws")>> \o CommaSeparated(Tail(elements))

\* the JSON text of an array
ArrayText(elements) == <<Tok("[")>> \o CommaSeparated(elements) \o <<Tok("]")>>

Fenced(text) == <<Tok("fence"), Tok("nl")>> \o text \o <<Tok("nl"), Tok("fence")>>

FencedJson(text) ==
    <<Tok("fence"), Tok("json"), Tok("nl")>> \o text \o <<Tok("nl"), Tok("fence")>>

\* responses that hold no JSON array
OtherResponses ==
    { <<>>,
      <<ProposedComment(FileA, 1)>>,
      <<Tok("["), ProposedComment(FileA, 1)>>,
      <<Tok("File:"), Tok("ws"), Word("a"), Tok("nl"),
        Tok("line:"), Tok("ws"), Num(<<"4", "2">>), Tok("nl"),
        Word("m"), Tok("nl"),
        Tok("filename:"), Word("b"), Tok(":"), Word("c")>>,
      <<Word("m"), Tok("nl"), Tok("line:"), Num(<<"7">>)>>,
      <<Word("m"), Tok("ws")>> \o Fenced(ArrayText(<<ProposedComment(FileA, 1)>>)),
      <<Tok("File:"), Tok("ws"), Word("a"), Tok("nl"),
        Word("head"), Tok("line:"), Tok("ws"), Word("m"), Tok("nl"),
        Word("m")>> }

RawResponses ==
    LET arrays == {ArrayText(es) : es \in SeqsUpTo(ElementSet, MaxElements)}
    IN  arrays \cup {Fenced(t) : t \in arrays} \cup {FencedJson(t) : t \in arrays}
            \cup {<<Tok("ws")>> \o t \o <<Tok("nl")>> : t \in arrays}
            \cup OtherResponses

NormInit ==
    /\ rawResponse \in RawResponses
    /\ limit \in 0..MaxLimit
    /\ normalized = <<>>
    /\ nstate = "called"

\* the try block returns the validated, truncated array
NormalizeStructured ==
    /\ nstate = "called"
    /\ StructuredPath(rawResponse)
    /\ normalized' = parseReviewResponse(rawResponse, limit)
    /\ nstate' = "returned"
    /\ UNCHANGED <<rawResponse, limit, parseVars, reviewVars, rulesVars, prepVars, slackVars>>

\* parseReviewResponse without its catch block: the error leaves the function
NormalizeFallbackRaises ==
    /\ nstate = "called"
    /\ ~StructuredPath(rawResponse)
    /\ nstate' = "raised"
    /\ UNCHANGED <<rawResponse, limit, normalized, parseVars, reviewVars, rulesVars, prepVars, slackVars>>

\* the try block throws and the catch block returns the fallback's comments
NormalizeFallback ==
    /\ nstate = "called"
    /\ ~StructuredPath(rawResponse)
    /\ normalized' = parseReviewResponse(rawResponse, limit)
    /\ nstate' = "returned"
    /\ UNCHANGED <<rawResponse, limit, parseVars, reviewVars, rulesVars, prepVars, slackVars>>

NormNext ==
    \/ NormalizeStructured
    \/ NormalizeFallback

InitNorm == NormInit /\ ParseIdle /\ ReviewIdle /\ RulesIdle /\ PrepIdle /\ SlackIdle

SpecNorm == InitNorm /\ [][NormNext]_vars

(***************************************************************************)
(* checkCustomRules.  A pattern is a sequence of characters: "." stands    *)
(* for any character but a line break, "(" opens a group that the          *)
(* patterns of the model never close, every other character stands for     *)
(* itself.  Indices into the text are 0-based, as in the code.             *)
(***************************************************************************)
MaxChanges == 3
MaxRules == 2
MaxViolations == 4

\* new RegExp(pattern, 'g') does not throw
Compiles(pattern) == \A i \in 1..Len(pattern) : pattern[i] # "("

CharMatches(c, ch) == IF c = "." THEN ch # "\n" ELSE c = ch

\* the pattern matches the text at index m
MatchesAt(pattern, text, m) ==
    /\ m + Len(pattern) <= Len(text)
    /\ \A i \in 1..Len(pattern) : CharMatches(pattern[i], text[m + i])

\* regex.exec(text) with the g flag: the indices, from lastIndex on, where
\* the pattern matches; the leftmost is the match returned
MatchStarts(pattern, text, from) ==
    {m \in from..Len(text) : MatchesAt(pattern, text, m)}

ExecIndex(pattern, text, from) ==
    CHOOSE m \in MatchStarts(pattern, text, from) :
        \A n \in MatchStarts(pattern, text, from) : m <= n

\* the concatenated text of all the lines of the file, whatever their type
allContent(file) ==
    JoinLines([k \in 1..Len(file.changes) |-> file.changes[k].content])

\* the concatenated text of the added lines of the file
addedContent(file) ==
    LET added == SelectSeq(file.changes, IsAddition)
    IN  JoinLines([k \in 1..Len(added) |-> added[k].content])

\* content.substring(0, index).split('\n').length
findLineNumber(content, index) ==
    1 + Cardinality({k \in 1..index : content[k] = "\n"})

Violation(rule, content, index) ==
    [ rule     |-> rule.name,
      message  |-> rule.message,
      severity |-> IF rule.severity = <<>> THEN "medium" ELSE rule.severity[1],
      line     |-> findLineNumber(content, index),
      match    |-> SubSeq(content, index + 1, index + Len(rule.pattern)) ]

\* the lines and the rules tried
RuleChange(type, content) == [type |-> type, content |-> content]

RuleChangeSet ==
    { RuleChange("addition", <<"T">>),
      RuleChange("addition", <<"a">>),
      RuleChange("deletion", <<"T">>),
      RuleChange("context", <<"T">>) }

Rule(name, pattern, severity) ==
    [name |-> name, pattern |-> pattern, message |-> "m", severity |-> severity]

RuleSet ==
    { Rule("todo", <<"T">>, <<"high">>),
      Rule("after-break", <<".", "\n", "T">>, <<>>),
      Rule("unclosed", <<"(", "T">>, <<"low">>),
      Rule("empty", <<>>, <<"low">>) }

RulesInit ==
    /\ ruleFile \in {[changes |-> cs] : cs \in SeqsUpTo(RuleChangeSet, MaxChanges)}
    /\ customRules \in SeqsUpTo(RuleSet, MaxRules)
    /\ ruleIdx = 1
    /\ lastIndex = 0
    /\ violations = <<>>
    /\ rstate = "checking"

\* no rules: the empty array is returned at once
ReturnNoRules ==
    /\ rstate = "checking"
    /\ customRules = <<>>
    /\ rstate' = "returned"
    /\ UNCHANGED <<ruleFile, customRules, ruleIdx, lastIndex, violations,
                   parseVars, normVars, reviewVars, prepVars, slackVars>>

\* checkCustomRules without its catch block: the SyntaxError leaves the
\* function
CompileFailsRaises ==
    /\ rstate = "checking"
    /\ ruleIdx <= Len(customRules)
    /\ ~Compiles(customRules[ruleIdx].pattern)
    /\ rstate' = "raised"
    /\ UNCHANGED <<ruleFile, customRules, ruleIdx, lastIndex, violations,
                   parseVars, normVars, reviewVars, prepVars, slackVars>>

\* the pattern does not compile: the catch block warns, forEach goes on
CompileFails ==
    /\ rstate = "checking"
    /\ ruleIdx <= Len(customRules)
    /\ ~Compiles(customRules[ruleIdx].pattern)
    /\ ruleIdx' = ruleIdx + 1
    /\ lastIndex' = 0
    /\ UNCHANGED <<ruleFile, customRules, violations, rstate,
                   parseVars, normVars, reviewVars, prepVars, slackVars>>

\* exec returns a match: a violation is pushed, lastIndex moves to the end
\* of the match
ExecMatches ==
    /\ rstate = "checking"
    /\ ruleIdx <= Len(customRules)
    /\ Len(violations) < MaxViolations
    /\ LET rule    == customRules[ruleIdx]
           content == addedContent(ruleFile)
       IN  /\ Compiles(rule.pattern)
           /\ MatchStarts(rule.pattern, content, lastIndex) # {}
           /\ LET index == ExecIndex(rule.pattern, content, lastIndex)
              IN  /\ violations' = Append(violations, Violation(rule, content, index))
                  /\ lastIndex' = index + Len(rule.pattern)
    /\ UNCHANGED <<ruleFile, customRules, ruleIdx, rstate,
                   parseVars, normVars, reviewVars, prepVars, slackVars>>

\* exec returns null: the while loop ends, forEach goes on
ExecReturnsNull ==
    /\ rstate = "checking"
    /\ ruleIdx <= Len(customRules)
    /\ Compiles(customRules[ruleIdx].pattern)
    /\ MatchStarts(customRules[ruleIdx].pattern, addedContent(ruleFile), lastIndex) = {}
    /\ ruleIdx' = ruleIdx + 1
    /\ lastIndex' = 0
    /\ UNCHANGED <<ruleFile, customRules, violations, rstate,
                   parseVars, normVars, reviewVars, prepVars, slackVars>>

ReturnViolations ==
    /\ rstate = "checking"
    /\ customRules # <<>>
    /\ ruleIdx > Len(customRules)
    /\ rstate' = "returned"
    /\ UNCHANGED <<ruleFile, customRules, ruleIdx, lastIndex, violations,
                   parseVars, normVars, reviewVars, prepVars, slackVars>>

RulesNext ==
    \/ ReturnNoRules
    \/ CompileFails
    \/ ExecMatches
    \/ ExecReturnsNull
    \/ ReturnViolations

InitRules == RulesInit /\ ParseIdle /\ NormIdle /\ ReviewIdle /\ PrepIdle /\ SlackIdle

SpecRules == InitRules /\ [][RulesNext]_vars

(***************************************************************************)
(* LLMService.buildReviewPrompt.  The prompt is kept as what it lists: for *)
(* each change its heading and, for each added line, the number printed    *)
(* before the colon and the content after it.  The number is <<n>>, or     *)
(* <<>> when the word unknown is printed in its place.                     *)
(***************************************************************************)
\* change.lineNumbers[lineIndex] || 'unknown'
LineNumOrUnknown(lineNumbers, lineIndex) ==
    IF lineIndex <= Len(lineNumbers) /\ lineNumbers[lineIndex] # 0
    THEN <<lineNumbers[lineIndex]>> ELSE <<>>

PromptFile(change, index) ==
    [ index     |-> index,
      filename  |-> change.filename,
      additions |-> change.additions,
      deletions |-> change.deletions,
      lines     |-> [i \in 1..Len(change.addedLines) |->
                        [ lineNum |-> LineNumOrUnknown(change.lineNumbers, i),
                          content |-> change.addedLines[i].content ]] ]

buildReviewPrompt(changes, ruleViolations) ==
    [ files      |-> [k \in 1..Len(changes) |-> PromptFile(changes[k], k)],
      violations |-> ruleViolations ]

(***************************************************************************)
(* The preparation of the review request on arbitrary parsed files:        *)
(* filterFiles, extractReviewableChanges, buildReviewPrompt.               *)
(***************************************************************************)
MaxFiles == 2
MaxGlobs == 2

FileAA == <<"a", "a", ".", "j", "s">>
FilePlus == <<"a", "+", ".", "j", "s">>

HunkLineAtZero == <<"@@", " -", "0", ",", "0", " +", "0", ",", "2", " @@">>

\* the sections a diff is made of, one per file
SectionSet ==
    { <<HeaderLine(FileA, FileA), <<"@@", " -", "1", ",", "2", " +", "3", ",", "4", " @@">>,
        <<"+", "x">>, <<"-", "y">>, <<" ", "z">>, <<"+", "w">>>>,
      <<HeaderLine(FileA, FileA), HunkLineAtZero, <<"+", "x">>, <<"+", "w">>>>,
      <<HeaderLine(FileAA, FileAA), <<"@@", " -", "1", ",", "2", " +", "3", ",", "4", " @@">>,
        <<"+", "x">>>>,
      <<HeaderLine(FilePlus, FilePlus), <<"@@", " -", "1", ",", "2", " +", "3", ",", "4", " @@">>,
        <<"+", "x">>>>,
      <<HeaderLine(FileB, FileB), <<"@@", " -", "1", ",", "2", " +", "3", ",", "4", " @@">>,
        <<"-", "y">>>> }

RECURSIVE Concat(_)
Concat(parts) == IF parts = <<>> THEN <<>> ELSE Head(parts) \o Concat(Tail(parts))

PrepFileLists == {parseDiff(Concat(sections)) : sections \in SeqsUpTo(SectionSet, MaxFiles)}

GlobSet ==
    { <<"*", ".", "j", "s">>,
      <<"a", ".", "?", "?">>,
      <<"a", "+", ".", "j", "s">>,
      <<"+", ".", "j", "s">> }

PrepInit ==
    /\ prepFiles \in PrepFileLists
    /\ prepPatterns \in SeqsUpTo(GlobSet, MaxGlobs)
    /\ prepFiltered = <<>>
    /\ prepChanges = <<>>
    /\ prepPrompt = <<>>
    /\ prepState = "filterFiles"

ApplyFilterFiles ==
    /\ prepState = "filterFiles"
    /\ ~FilterFilesThrows(prepFiles, prepPatterns)
    /\ prepFiltered' = filterFiles(prepFiles, prepPatterns)
    /\ prepState' = "extractReviewableChanges"
    /\ UNCHANGED <<prepFiles, prepPatterns, prepChanges, prepPrompt,
                   parseVars, normVars, reviewVars, rulesVars, slackVars>>

\* a pattern does not compile: the SyntaxError leaves filterFiles
ApplyFilterFilesThrows ==
    /\ prepState = "filterFiles"
    /\ FilterFilesThrows(prepFiles, prepPatterns)
    /\ prepState' = "raised"
    /\ UNCHANGED <<prepFiles, prepPatterns, prepFiltered, prepChanges, prepPrompt,
                   parseVars, normVars, reviewVars, rulesVars, slackVars>>

ApplyExtractReviewableChanges ==
    /\ prepState = "extractReviewableChanges"
    /\ prepChanges' = extractReviewableChanges(prepFiltered)
    /\ prepState' = "buildReviewPrompt"
    /\ UNCHANGED <<prepFiles, prepPatterns, prepFiltered, prepPrompt,
                   parseVars, normVars, reviewVars, rulesVars, slackVars>>

ApplyBuildReviewPrompt ==
    /\ prepState = "buildReviewPrompt"
    /\ prepPrompt' = buildReviewPrompt(prepChanges, <<>>)
    /\ prepState' = "done"
    /\ UNCHANGED <<prepFiles, prepPatterns, prepFiltered, prepChanges,
                   parseVars, normVars, reviewVars, rulesVars, slackVars>>

PrepNext ==
    \/ ApplyFilterFiles
    \/ ApplyFilterFilesThrows
    \/ ApplyExtractReviewableChanges
    \/ ApplyBuildReviewPrompt

InitPrep == PrepInit /\ ParseIdle /\ NormIdle /\ ReviewIdle /\ RulesIdle /\ SlackIdle

SpecPrep == InitPrep /\ [][PrepNext]_vars

(***************************************************************************)
(* ReviewService.reviewPullRequest.  The run is suspended at each await;   *)
(* pc names the await it stands at:                                        *)
(*   "start"              the call has not begun                           *)
(*   "getPullRequest", "getReviewComments", "reviewCode"                   *)
(*                        awaiting that collaborator                       *)
(*   "loop"               at the head of the for-of loop over llmComments  *)
(*   "postReviewComment"  awaiting the post of llmComments[idx]            *)
(*   "delay"              awaiting the 100 ms timer                        *)
(*   "postReview"         awaiting the post of the summary                 *)
(*   "returned", "thrown" the promise is resolved with result or rejected  *)
(* config.rules.custom is empty, as in the default configuration, so the   *)
(* custom-rule block is skipped and customRuleViolations stays empty.      *)
(***************************************************************************)
MaxExisting == 2
DefaultMaxComments == 10

HunkLine == <<"@@", " -", "1", ",", "2", " +", "3", ",", "4", " @@">>

DiffTexts ==
    { <<>>,
      <<<<"index ", "1">>>>,
      <<HeaderLine(FileA, FileA), HunkLine, <<"-", "y">>>>,
      <<HeaderLine(FileA, FileA), HunkLine, <<"+", "x">>, <<"-", "y">>,
        HeaderLine(FileB, FileB), HunkLine, <<"+", "x">>>> }

ExcludeChoices ==
    { <<<<"b", ".", "?", "?">>>>,
      <<<<"*", ".", "j", "s">>>> }

Existing(path, line, login) ==
    [path |-> path, line |-> line, user |-> [login |-> login]]

ExistingSet ==
    { Existing(FileA, 1, <<"review-", "bot">>),
      Existing(FileA, 1, <<"alice-", "Bot">>),
      Existing(FileA, 1, <<"bot", "-2">>),
      Existing(FileB, 1, <<"review-", "bot">>) }

ReviewElements ==
    {ProposedComment(FileA, 1), ProposedComment(FileA, 2), ProposedComment(FileB, 1)}

ReviewResponses ==
    {ArrayText(es) : es \in SeqsUpTo(ReviewElements, MaxElements)}
        \cup { FencedJson(ArrayText(<<ProposedComment(FileA, 1)>>)),
               ArrayText(<<Tok("null"), ProposedComment(FileA, 1)>>) }

HeadSha == "sha1"
PostError == "GitHub API error 422"

customRuleViolations == <<>>

\* a call just made, and the log once its last entry has settled
Call(op) == [op |-> op, outcome |-> "pending"]
Settled(outcome) == [calls EXCEPT ![Len(calls)].outcome = outcome]

\* a skipped result that also reports success
SkippedWithSuccess(reason) == [skipped |-> TRUE, reason |-> reason, success |-> TRUE]

Skipped(reason) == [skipped |-> TRUE, reason |-> reason]

\* the results object built before the return
Results ==
    [ success              |-> TRUE,
      filesReviewed        |-> filesReviewed,
      commentsGenerated    |-> Len(llmComments),
      commentsPosted       |-> Len(postedComments),
      commentsSkipped      |-> Len(skippedComments),
      customRuleViolations |-> Len(customRuleViolations),
      postedComments       |-> postedComments,
      skippedComments      |-> skippedComments ]

parsedFiles == parseDiff(diffText)
filteredFiles == filterFiles(parsedFiles, excludePatterns)
reviewableChanges == extractReviewableChanges(filteredFiles)

\* SkipReason with the diff parsed before config.enabled is read
SkipReasonParseFirst ==
    IF Len(parsedFiles) = 0 THEN "no-changes"
    ELSE IF ~enabled THEN "disabled"
    ELSE IF Len(filteredFiles) = 0 THEN "all-excluded"
    ELSE IF Len(reviewableChanges) = 0 THEN "no-additions"
    ELSE ""

\* the reason of the first short-circuit that applies, "" if none does
SkipReason ==
    IF ~enabled THEN "disabled"
    ELSE IF Len(parsedFiles) = 0 THEN "no-changes"
    ELSE IF Len(filteredFiles) = 0 THEN "all-excluded"
    ELSE IF Len(reviewableChanges) = 0 THEN "no-additions"
    ELSE ""

ReviewInit ==
    /\ pc = "start"
    /\ enabled \in BOOLEAN
    /\ diffText \in DiffTexts
    /\ excludePatterns \in ExcludeChoices
    /\ filesReviewed = 0
    /\ commitSha = <<>>
    /\ existingComments = <<>>
    /\ llmComments = <<>>
    /\ idx = 0
    /\ postedComments = <<>>
    /\ skippedComments = <<>>
    /\ calls = <<>>
    /\ result = NoResult

ReturnSkipped(reason) ==
    /\ pc = "start"
    /\ SkipReason = reason
    /\ result' = Skipped(reason)
    /\ pc' = "returned"
    /\ UNCHANGED <<enabled, diffText, excludePatterns, filesReviewed, commitSha,
                   existingComments, llmComments, idx, postedComments,
                   skippedComments, calls, parseVars, normVars, rulesVars, prepVars, slackVars>>

SkipDisabled == ReturnSkipped("disabled")
SkipNoChanges == ReturnSkipped("no-changes")
SkipAllExcluded == ReturnSkipped("all-excluded")
SkipNoAdditions == ReturnSkipped("no-additions")

\* no short-circuit applies: the run goes on to "await getPullRequest"
CallGetPullRequest ==
    /\ pc = "start"
    /\ SkipReason = ""
    /\ filesReviewed' = Len(reviewableChanges)
    /\ calls' = Append(calls, Call("getPullRequest"))
    /\ pc' = "getPullRequest"
    /\ UNCHANGED <<enabled, diffText, excludePatterns, commitSha, existingComments,
                   llmComments, idx, postedComments, skippedComments, result,
                   parseVars, normVars, rulesVars, prepVars, slackVars>>

\* an awaited call rejects outside the per-comment try: the outer catch
\* logs and rethrows
Rethrow(at) ==
    /\ pc = at
    /\ calls' = Settled("error")
    /\ pc' = "thrown"
    /\ UNCHANGED <<enabled, diffText, excludePatterns, filesReviewed, commitSha,
                   existingComments, llmComments, idx, postedComments,
                   skippedComments, result, parseVars, normVars, rulesVars, prepVars, slackVars>>

\* a failed fetch of the existing comments taken for an empty list
GetReviewCommentsFailsSwallowed ==
    /\ pc = "getReviewComments"
    /\ existingComments' = <<>>
    /\ calls' = Append(Settled("error"), Call("reviewCode"))
    /\ pc' = "reviewCode"
    /\ UNCHANGED <<enabled, diffText, excludePatterns, filesReviewed, commitSha,
                   llmComments, idx, postedComments, skippedComments, result,
                   parseVars, normVars, rulesVars, prepVars, slackVars>>

GetPullRequestFails == Rethrow("getPullRequest")
GetReviewCommentsFails == Rethrow("getReviewComments")
ReviewCodeFails == Rethrow("reviewCode")

GetPullRequestReturns ==
    /\ pc = "getPullRequest"
    /\ commitSha' = <<HeadSha>>
    /\ calls' = Append(Settled("ok"), Call("getReviewComments"))
    /\ pc' = "getReviewComments"
    /\ UNCHANGED <<enabled, diffText, excludePatterns, filesReviewed,
                   existingComments, llmComments, idx, postedComments,
                   skippedComments, result, parseVars, normVars, rulesVars, prepVars, slackVars>>

GetReviewCommentsReturns ==
    /\ pc = "getReviewComments"
    /\ \E fetched \in SeqsUpTo(ExistingSet, MaxExisting) : existingComments' = fetched
    /\ calls' = Append(Settled("ok"), Call("reviewCode"))
    /\ pc' = "reviewCode"
    /\ UNCHANGED <<enabled, diffText, excludePatterns, filesReviewed, commitSha,
                   llmComments, idx, postedComments, skippedComments, result,
                   parseVars, normVars, rulesVars, prepVars, slackVars>>

\* callLLM resolves with a raw text, parseReviewResponse turns it into llmComments
ReviewCodeReturns ==
    /\ pc = "reviewCode"
    /\ \E raw \in ReviewResponses :
           llmComments' = parseReviewResponse(raw, DefaultMaxComments)
    /\ calls' = Settled("ok")
    /\ idx' = 1
    /\ pc' = "loop"
    /\ UNCHANGED <<enabled, diffText, excludePatterns, filesReviewed, commitSha,
                   existingComments, postedComments, skippedComments,
                   result, parseVars, normVars, rulesVars, prepVars, slackVars>>

\* the comment of the current iteration, and the existing comment found for it
Current == llmComments[idx]
ExistingForCurrent ==
    findExistingComment(existingComments, Current.filename[1], Current.line[1])

\* an iteration that finds an existing comment: skip and continue
SkipExisting ==
    /\ pc = "loop"
    /\ idx <= Len(llmComments)
    /\ ExistingForCurrent # <<>>
    /\ skippedComments' = Append(skippedComments, Current)
    /\ idx' = idx + 1
    /\ UNCHANGED <<pc, enabled, diffText, excludePatterns, filesReviewed, commitSha,
                   existingComments, llmComments, postedComments, calls, result,
                   parseVars, normVars, rulesVars, prepVars, slackVars>>

\* an iteration that finds none: "await postReviewComment(...)"
CallPostReviewComment ==
    /\ pc = "loop"
    /\ idx <= Len(llmComments)
    /\ ExistingForCurrent = <<>>
    /\ calls' = Append(calls, [ op        |-> "postReviewComment",
                                outcome   |-> "pending",
                                commit_id |-> commitSha[1],
                                path      |-> Current.filename[1],
                                line      |-> Current.line[1],
                                comment   |-> idx ])
    /\ pc' = "postReviewComment"
    /\ UNCHANGED <<enabled, diffText, excludePatterns, filesReviewed, commitSha,
                   existingComments, llmComments, idx, postedComments,
                   skippedComments, result, parseVars, normVars, rulesVars, prepVars, slackVars>>

\* the post resolves: record it, then "await new Promise(setTimeout 100)"
PostReviewCommentReturns ==
    /\ pc = "postReviewComment"
    /\ postedComments' = Append(postedComments, Current)
    /\ calls' = Append(Settled("ok"), Call("setTimeout"))
    /\ pc' = "delay"
    /\ UNCHANGED <<enabled, diffText, excludePatterns, filesReviewed, commitSha,
                   existingComments, llmComments, idx, skippedComments, result,
                   parseVars, normVars, rulesVars, prepVars, slackVars>>

\* the timer fires: next iteration
DelayElapses ==
    /\ pc = "delay"
    /\ calls' = Settled("ok")
    /\ idx' = idx + 1
    /\ pc' = "loop"
    /\ UNCHANGED <<enabled, diffText, excludePatterns, filesReviewed, commitSha,
                   existingComments, llmComments, postedComments, skippedComments,
                   result, parseVars, normVars, rulesVars, prepVars, slackVars>>

\* the comment pushed by the catch block: the comment with an error property
WithError(comment, message) ==
    [ k          |-> comment.k,
      filename   |-> comment.filename,
      line       |-> comment.line,
      severity   |-> comment.severity,
      category   |-> comment.category,
      message    |-> comment.message,
      suggestion |-> comment.suggestion,
      error      |-> message ]

\* a rejected post that is not caught per comment and ends the run
PostReviewCommentFailsAborts ==
    /\ pc = "postReviewComment"
    /\ calls' = Settled("error")
    /\ pc' = "thrown"
    /\ UNCHANGED <<enabled, diffText, excludePatterns, filesReviewed, commitSha,
                   existingComments, llmComments, idx, postedComments,
                   skippedComments, result, parseVars, normVars, rulesVars, prepVars, slackVars>>

\* a rejected post whose comment is recorded nowhere
PostReviewCommentFailsDrops ==
    /\ pc = "postReviewComment"
    /\ calls' = Settled("error")
    /\ idx' = idx + 1
    /\ pc' = "loop"
    /\ UNCHANGED <<enabled, diffText, excludePatterns, filesReviewed, commitSha,
                   existingComments, llmComments, postedComments, skippedComments,
                   result, parseVars, normVars, rulesVars, prepVars, slackVars>>

\* the post rejects: the per-comment catch records it; next iteration
PostReviewCommentFails ==
    /\ pc = "postReviewComment"
    /\ skippedComments' = Append(skippedComments, WithError(Current, PostError))
    /\ calls' = Settled("error")
    /\ idx' = idx + 1
    /\ pc' = "loop"
    /\ UNCHANGED <<enabled, diffText, excludePatterns, filesReviewed, commitSha,
                   existingComments, llmComments, postedComments, result,
                   parseVars, normVars, rulesVars, prepVars, slackVars>>

\* the loop is over and nothing was posted: return the results
ReturnWithoutSummary ==
    /\ pc = "loop"
    /\ idx > Len(llmComments)
    /\ Len(postedComments) = 0
    /\ result' = Results
    /\ pc' = "returned"
    /\ UNCHANGED <<enabled, diffText, excludePatterns, filesReviewed, commitSha,
                   existingComments, llmComments, idx, postedComments,
                   skippedComments, calls, parseVars, normVars, rulesVars, prepVars, slackVars>>

\* the summary posted whenever comments were proposed, posted or not
CallPostReviewIfGenerated ==
    /\ pc = "loop"
    /\ idx > Len(llmComments)
    /\ Len(llmComments) > 0
    /\ calls' = Append(calls, [op |-> "postReview", outcome |-> "pending",
                                event |-> "COMMENT"])
    /\ pc' = "postReview"
    /\ UNCHANGED <<enabled, diffText, excludePatterns, filesReviewed, commitSha,
                   existingComments, llmComments, idx, postedComments,
                   skippedComments, result, parseVars, normVars, rulesVars, prepVars, slackVars>>

\* the loop is over and something was posted: "await postReview(...)"
CallPostReview ==
    /\ pc = "loop"
    /\ idx > Len(llmComments)
    /\ Len(postedComments) > 0
    /\ calls' = Append(calls, [op |-> "postReview", outcome |-> "pending",
                                event |-> "COMMENT"])
    /\ pc' = "postReview"
    /\ UNCHANGED <<enabled, diffText, excludePatterns, filesReviewed, commitSha,
                   existingComments, llmComments, idx, postedComments,
                   skippedComments, result, parseVars, normVars, rulesVars, prepVars, slackVars>>

\* the summary post resolves: return the results
PostReviewReturns ==
    /\ pc = "postReview"
    /\ calls' = Settled("ok")
    /\ result' = Results
    /\ pc' = "returned"
    /\ UNCHANGED <<enabled, diffText, excludePatterns, filesReviewed, commitSha,
                   existingComments, llmComments, idx, postedComments,
                   skippedComments, parseVars, normVars, rulesVars, prepVars, slackVars>>

\* the summary post rejects: the inner catch logs it; return the results
PostReviewFails ==
    /\ pc = "postReview"
    /\ calls' = Settled("error")
    /\ result' = Results
    /\ pc' = "returned"
    /\ UNCHANGED <<enabled, diffText, excludePatterns, filesReviewed, commitSha,
                   existingComments, llmComments, idx, postedComments,
                   skippedComments, parseVars, normVars, rulesVars, prepVars, slackVars>>

ReviewNext ==
    \/ SkipDisabled
    \/ SkipNoChanges
    \/ SkipAllExcluded
    \/ SkipNoAdditions
    \/ CallGetPullRequest
    \/ GetPullRequestReturns
    \/ GetPullRequestFails
    \/ GetReviewCommentsReturns
    \/ GetReviewCommentsFails
    \/ ReviewCodeReturns
    \/ ReviewCodeFails
    \/ SkipExisting
    \/ CallPostReviewComment
    \/ PostReviewCommentReturns
    \/ PostReviewCommentFails
    \/ DelayElapses
    \/ ReturnWithoutSummary
    \/ CallPostReview
    \/ PostReviewReturns
    \/ PostReviewFails

Init == ReviewInit /\ ParseIdle /\ NormIdle /\ RulesIdle /\ PrepIdle /\ SlackIdle

Spec == Init /\ [][ReviewNext]_vars

(***************************************************************************)
(* Properties of parseDiff.                                                *)
(***************************************************************************)
CountType(changes, type) ==
    Cardinality({k \in 1..Len(changes) : changes[k].type = type})

\* the number of entries before position j of a hunk's lines that advance
\* the new-file counter (all but deletions), resp. the old-file counter
NewAdvances(lines, j) ==
    Cardinality({k \in 1..(j - 1) : lines[k].type # "deletion"})

OldAdvances(lines, j) ==
    Cardinality({k \in 1..(j - 1) : lines[k].type # "addition"})

\* C8: every FileChange that parseDiff returns has additions equal to the
\* number of entries of its changes with type addition, and deletions equal
\* to the number with type deletion.
C8_CountsMatchChanges ==
    pstate = "returned" =>
        \A k \in 1..Len(ResultFiles(parser)) :
            LET f == ResultFiles(parser)[k]
            IN  /\ f.additions = CountType(f.changes, "addition")
                /\ f.deletions = CountType(f.changes, "deletion")

C8_Witness ==
    /\ pstate = "returned"
    /\ \E k \in 1..Len(ResultFiles(parser)) :
          LET f == ResultFiles(parser)[k]
          IN  /\ f.additions >= 1
              /\ f.deletions >= 1
              /\ CountType(f.changes, "context") >= 1

\* C9: in every hunk the first content line is stamped with the header's
\* oldStart (unless it is an addition) and newStart (unless it is a
\* deletion); the j-th line is stamped with the start plus the number of
\* earlier lines that advance that counter, so after k context or addition
\* lines the new-line counter stands at newStart + k and deletions advance
\* the old counter only; the stamped numbers never decrease within a hunk.
C9_LineNumbersFromHunkStart ==
    \A id \in 1..Len(parser.hunkObjs) :
        LET h == parser.hunkObjs[id]
            n == Len(h.lines)
        IN  /\ \A j \in 1..n :
                  /\ h.lines[j].oldLineNumber =
                        IF h.lines[j].type = "addition" THEN <<>>
                        ELSE <<h.oldStart + OldAdvances(h.lines, j)>>
                  /\ h.lines[j].newLineNumber =
                        IF h.lines[j].type = "deletion" THEN <<>>
                        ELSE <<h.newStart + NewAdvances(h.lines, j)>>
            /\ \A i, j \in 1..n :
                  i < j =>
                    /\ (h.lines[i].newLineNumber # <<>> /\ h.lines[j].newLineNumber # <<>>)
                          => h.lines[i].newLineNumber[1] <= h.lines[j].newLineNumber[1]
                    /\ (h.lines[i].oldLineNumber # <<>> /\ h.lines[j].oldLineNumber # <<>>)
                          => h.lines[i].oldLineNumber[1] <= h.lines[j].oldLineNumber[1]
            /\ (pstate = "scanning" /\ parser.currentHunk = id) =>
                  /\ parser.newLineNum = h.newStart + NewAdvances(h.lines, n + 1)
                  /\ parser.oldLineNum = h.oldStart + OldAdvances(h.lines, n + 1)

C9_Witness ==
    \E id \in 1..Len(parser.hunkObjs) :
        LET h == parser.hunkObjs[id]
        IN  /\ h.oldStart = 10 /\ h.newStart = 20
            /\ Len(h.lines) = 3
            /\ h.lines[1].type = "deletion"
            /\ h.lines[2].type = "addition"
            /\ h.lines[3].type = "context"
            /\ h.lines[3].oldLineNumber = <<11>>
            /\ h.lines[3].newLineNumber = <<21>>

(***************************************************************************)
(* Properties of parseReviewResponse.                                      *)
(***************************************************************************)
\* the JSON text of the response: the interior of its fence, if it has one
JsonTextOf(text) ==
    IF FenceMatches(TrimTokens(text)) THEN FenceInterior(TrimTokens(text))
    ELSE TrimTokens(text)

\* an element carries all five required fields, each neither null nor undefined
CarriesAllFields(c) ==
    /\ c.k = "obj"
    /\ c.filename # <<>> /\ c.line # <<>> /\ c.severity # <<>>
    /\ c.category # <<>> /\ c.message # <<>>

HasNullElement(text) ==
    \E p \in 1..Len(JsonElements(JsonTextOf(text))) :
        JsonElements(JsonTextOf(text))[p].k = "null"

\* C10: for a raw response whose text parses as a JSON array, the result is
\* exactly the elements that carry all five required fields, in their
\* original order, every other element (object with a missing field, null,
\* number, string) being dropped.  Stated for the responses whose complete
\* elements are no more than maxComments, so that the truncation to
\* maxComments (claim C12) plays no part.
C10_KeepsExactlyCompleteElements ==
    ( /\ nstate = "returned"
      /\ JsonIsArray(JsonTextOf(rawResponse))
      /\ Len(SelectSeq(JsonElements(JsonTextOf(rawResponse)), CarriesAllFields)) <= limit )
    => normalized = SelectSeq(JsonElements(JsonTextOf(rawResponse)), CarriesAllFields)

\* C10 for arrays that hold no null element
C10_KeepsCompleteElementsUnlessNull ==
    ( /\ nstate = "returned"
      /\ JsonIsArray(JsonTextOf(rawResponse))
      /\ ~HasNullElement(rawResponse)
      /\ Len(SelectSeq(JsonElements(JsonTextOf(rawResponse)), CarriesAllFields)) <= limit )
    => normalized = SelectSeq(JsonElements(JsonTextOf(rawResponse)), CarriesAllFields)

\* the raw text is wrapped in one fenced block, and that block's interior
Wrapped(text) ==
    /\ Len(text) >= 2
    /\ text[1].k = "fence"
    /\ text[Len(text)].k = "fence"

WrappedInterior(text) ==
    TrimTokens(SubSeq(text, IF text[2].k = "json" THEN 3 ELSE 2, Len(text) - 1))

\* the text to parse: the interior of the enclosing fence if the raw text
\* is wrapped in one, the raw text in full otherwise
EnclosedJsonText(text) ==
    IF Wrapped(TrimTokens(text)) THEN WrappedInterior(TrimTokens(text))
    ELSE TrimTokens(text)

HasFencedField(text) == \E p \in 1..Len(text) : MessageFences(text[p]) # {}

\* C11: a fence is stripped only when it encloses the raw text, and then
\* exactly its interior is parsed; so a valid JSON array (without null
\* elements) gives its complete elements, cut to maxComments, whether it
\* comes fenced or bare, also when the message of one of its elements holds
\* a triple-backtick block.
C11_FencedOrBareSameComments ==
    ( /\ nstate = "returned"
      /\ JsonIsArray(EnclosedJsonText(rawResponse))
      /\ \A p \in 1..Len(JsonElements(EnclosedJsonText(rawResponse))) :
             JsonElements(EnclosedJsonText(rawResponse))[p].k # "null" )
    => normalized =
          Slice(SelectSeq(JsonElements(EnclosedJsonText(rawResponse)), CarriesAllFields),
                limit)

\* C11 for the responses none of whose elements holds a fence in a field
C11_FencedOrBareSameCommentsPlain ==
    ( /\ nstate = "returned"
      /\ ~HasFencedField(rawResponse)
      /\ JsonIsArray(EnclosedJsonText(rawResponse))
      /\ \A p \in 1..Len(JsonElements(EnclosedJsonText(rawResponse))) :
             JsonElements(EnclosedJsonText(rawResponse))[p].k # "null" )
    => normalized =
          Slice(SelectSeq(JsonElements(EnclosedJsonText(rawResponse)), CarriesAllFields),
                limit)

\* the list that parseReviewResponse cuts to maxComments: the validated
\* elements on the structured path, the extracted comments on the fallback
UncutComments(response) ==
    IF StructuredPath(response) THEN KeptComments(response)
    ELSE ExtractedComments(response)

\* C12: for every raw response and every maxComments >= 0 the result holds
\* at most maxComments comments, and they are the first maxComments entries
\* (all of them if there are fewer) of the kept list, resp. of the
\* heuristically extracted list, in order.
C12_AtMostMaxCommentsInOrder ==
    nstate = "returned" =>
        /\ Len(normalized) <= limit
        /\ Len(normalized) =
              IF Len(UncutComments(rawResponse)) < limit
              THEN Len(UncutComments(rawResponse)) ELSE limit
        /\ \A k \in 1..Len(normalized) : normalized[k] = UncutComments(rawResponse)[k]

C12_Witness ==
    /\ nstate = "returned"
    /\ StructuredPath(rawResponse)
    /\ limit = 1
    /\ Len(KeptComments(rawResponse)) = 3
    /\ normalized = <<KeptComments(rawResponse)[1]>>

\* the truncation also acts on the fallback path
C12_FallbackWitness ==
    /\ nstate = "returned"
    /\ ~StructuredPath(rawResponse)
    /\ limit = 1
    /\ Len(ExtractedComments(rawResponse)) = 2
    /\ Len(normalized) = 1

\* C13: for every raw response string, when JSON.parse fails on the text
\* it is given or the parsed value is no array, the result is that of the
\* heuristic extractor on the original raw text, and the call never raises.
C13_FallbackInsteadOfFailure ==
    /\ nstate \in {"idle", "called", "returned"}
    /\ ( nstate = "returned" /\ ~JsonIsArray(JsonText(rawResponse)) )
          => normalized = Slice(ExtractedComments(rawResponse), limit)

\* JSON.parse fails and the extractor finds comments in the raw text
C13_Witness ==
    /\ nstate = "returned"
    /\ ~JsonParses(JsonText(rawResponse))
    /\ Len(normalized) = 2
    /\ normalized[1].line = <<42>>

\* the text parses, but to a value that is no array
C13_NotArrayWitness ==
    /\ nstate = "returned"
    /\ JsonParses(JsonText(rawResponse))
    /\ ~JsonIsArray(JsonText(rawResponse))
    /\ normalized = <<>>

(***************************************************************************)
(* Properties of checkCustomRules.                                         *)
(***************************************************************************)
\* the contents of the addition lines, in file order, joined by line breaks
RECURSIVE AdditionText(_)
AdditionText(changes) ==
    IF changes = <<>> THEN <<>>
    ELSE IF Head(changes).type # "addition" THEN AdditionText(Tail(changes))
    ELSE IF \E k \in 2..Len(changes) : changes[k].type = "addition"
    THEN Head(changes).content \o <<"\n">> \o AdditionText(Tail(changes))
    ELSE Head(changes).content

BreaksBefore(text, m) == Cardinality({j \in 1..m : text[j] = "\n"})

\* the violations of one rule: its successive matches in the text from
\* index from on, each after the end of the one before, at most fuel of them
RECURSIVE ScanRule(_, _, _, _)
ScanRule(rule, text, from, fuel) ==
    IF fuel = 0 \/ MatchStarts(rule.pattern, text, from) = {} THEN <<>>
    ELSE LET m == ExecIndex(rule.pattern, text, from)
         IN  << [ rule     |-> rule.name,
                  message  |-> rule.message,
                  severity |-> IF rule.severity = <<>> THEN "medium"
                               ELSE rule.severity[1],
                  line     |-> 1 + BreaksBefore(text, m),
                  match    |-> SubSeq(text, m + 1, m + Len(rule.pattern)) ] >>
                 \o ScanRule(rule, text, m + Len(rule.pattern), fuel - 1)

\* the violations of the rules, in rule order, at most fuel of them
RECURSIVE ScanRules(_, _, _)
ScanRules(rules, text, fuel) ==
    IF rules = <<>> THEN <<>>
    ELSE LET first == ScanRule(Head(rules), text, 0, fuel)
         IN  first \o ScanRules(Tail(rules), text, fuel - Len(first))

IsPrefix(s, t) == Len(s) <= Len(t) /\ \A k \in 1..Len(s) : s[k] = t[k]

AllCompile(rules) == \A r \in 1..Len(rules) : Compiles(rules[r].pattern)

\* C14: for rules whose patterns compile, the violations are those of the
\* successive matches of each rule, in rule order, in the text made of the
\* contents of the file's addition lines joined by line breaks; each has
\* for line 1 plus the number of line breaks before the start of its match.
\* Deletion and context lines are no part of that text, and a pattern that
\* occurs once in it gives exactly one violation.
C14_ViolationLineInAddedText ==
    AllCompile(customRules) =>
        /\ IsPrefix(violations,
                    ScanRules(customRules, AdditionText(ruleFile.changes), MaxViolations))
        /\ rstate = "returned" =>
              violations =
                  ScanRules(customRules, AdditionText(ruleFile.changes), MaxViolations)

\* the only added T stands on the second added line, after a deleted T
C14_Witness ==
    /\ rstate = "returned"
    /\ ruleFile.changes = << RuleChange("addition", <<"a">>),
                             RuleChange("deletion", <<"T">>),
                             RuleChange("addition", <<"T">>) >>
    /\ customRules = <<Rule("todo", <<"T">>, <<"high">>)>>
    /\ Len(violations) = 1
    /\ violations[1].line = 2

\* C15: a rule whose pattern does not compile gives no violation and does
\* not raise; the violations returned are those of the other rules, in rule
\* order, as if the invalid rule were not in the list.
C15_InvalidRuleSkipped ==
    /\ rstate \in {"idle", "checking", "returned"}
    /\ rstate = "returned" =>
          violations = ScanRules(SelectSeq(customRules, LAMBDA r : Compiles(r.pattern)),
                                 AdditionText(ruleFile.changes), MaxViolations)

\* an invalid rule stands before a rule that finds a violation
C15_Witness ==
    /\ rstate = "returned"
    /\ Len(customRules) = 2
    /\ ~Compiles(customRules[1].pattern)
    /\ Compiles(customRules[2].pattern)
    /\ violations # <<>>
    /\ \A k \in 1..Len(violations) : violations[k].rule = customRules[2].name

(***************************************************************************)
(* Properties of filterFiles, extractReviewableChanges, buildReviewPrompt. *)
(***************************************************************************)
\* the glob matches the whole name: "*" is any run of characters, "?" any
\* single character, every other character (the dot too) is itself
RECURSIVE GlobAccepts(_, _)
GlobAccepts(glob, name) ==
    IF glob = <<>> THEN name = <<>>
    ELSE IF Head(glob) = "*"
    THEN \/ GlobAccepts(Tail(glob), name)
         \/ name # <<>> /\ GlobAccepts(glob, Tail(name))
    ELSE IF Head(glob) = "?"
    THEN name # <<>> /\ GlobAccepts(Tail(glob), Tail(name))
    ELSE name # <<>> /\ Head(name) = Head(glob) /\ GlobAccepts(Tail(glob), Tail(name))

NonMatching(files, globs) ==
    SelectSeq(files, LAMBDA f :
        ~\E p \in 1..Len(globs) : GlobAccepts(globs[p], f.filename))

Filtered == prepState \in {"extractReviewableChanges", "buildReviewPrompt", "done"}

\* C16: filterFiles returns the files, in their order and unmodified, whose
\* name no glob matches in full, "." being literal, "*" any run of
\* characters and "?" any single character; without globs it returns the
\* files unchanged.
C16_FilterKeepsNonMatching ==
    /\ prepState # "raised"
    /\ Filtered => prepFiltered = NonMatching(prepFiles, prepPatterns)

\* C16 for the globs made of letters, ".", "*" and "?" only
C16_FilterKeepsNonMatchingPlainGlobs ==
    (\A p \in 1..Len(prepPatterns) : \A i \in 1..Len(prepPatterns[p]) :
         prepPatterns[p][i] # "+")
    => /\ prepState # "raised"
       /\ Filtered => prepFiltered = NonMatching(prepFiles, prepPatterns)

\* the glob a+.js is applied to the files aa.js and a+.js
C16_PlusGlobWitness ==
    /\ Filtered
    /\ prepPatterns = <<<<"a", "+", ".", "j", "s">>>>
    /\ Len(prepFiles) = 2
    /\ prepFiles[1].filename = FileAA
    /\ prepFiles[2].filename = FilePlus
    /\ Len(prepFiltered) = 1
    /\ prepFiltered[1].filename = FilePlus

Extracted == prepState \in {"buildReviewPrompt", "done"}

AdditionsOf(file) == SelectSeq(file.changes, LAMBDA c : c.type = "addition")

\* the filtered files that have at least one addition line, in order
WithAdditions == SelectSeq(prepFiltered, LAMBDA f : AdditionsOf(f) # <<>>)

\* C17: extractReviewableChanges returns, in input order, one entry for
\* each file that has at least one addition line and none for a file with
\* no addition line; the entry's addedLines are the file's addition lines
\* in file order, its content their contents joined by line breaks.
C17_OneEntryPerFileWithAdditions ==
    Extracted =>
        /\ Len(prepChanges) = Len(WithAdditions)
        /\ \A j \in 1..Len(prepChanges) :
              /\ prepChanges[j].filename = WithAdditions[j].filename
              /\ prepChanges[j].addedLines = AdditionsOf(WithAdditions[j])
              /\ prepChanges[j].addedLines # <<>>
              /\ prepChanges[j].content = AdditionText(WithAdditions[j].changes)

\* a file with deletions only stands before a file with two additions, a
\* deletion and a context line
C17_Witness ==
    /\ Extracted
    /\ Len(prepFiltered) = 2
    /\ AdditionsOf(prepFiltered[1]) = <<>>
    /\ prepFiltered[1].changes # <<>>
    /\ Len(prepFiltered[2].changes) = 4
    /\ Len(prepChanges) = 1
    /\ prepChanges[1].filename = prepFiltered[2].filename
    /\ prepChanges[1].content = <<"x", "\n", "w">>

\* C18: in the prompt every added line of every reviewable change is
\* printed with its own new-file line number: for each index i the number
\* before addedLines[i].content is addedLines[i].newLineNumber, whatever
\* the start of the hunk, 0 included.
C18_AddedLinePairedWithItsNumber ==
    prepState = "done" =>
        \A k \in 1..Len(prepChanges) :
            /\ Len(prepPrompt.files[k].lines) = Len(prepChanges[k].addedLines)
            /\ \A i \in 1..Len(prepChanges[k].addedLines) :
                  /\ prepPrompt.files[k].lines[i].content =
                        prepChanges[k].addedLines[i].content
                  /\ prepPrompt.files[k].lines[i].lineNum =
                        prepChanges[k].addedLines[i].newLineNumber

\* C18 for the changes none of whose added lines has the number 0
C18_PairedUnlessNumberedZero ==
    prepState = "done" =>
        \A k \in 1..Len(prepChanges) :
            (\A i \in 1..Len(prepChanges[k].addedLines) :
                 prepChanges[k].addedLines[i].newLineNumber # <<0>>)
            => \A i \in 1..Len(prepChanges[k].addedLines) :
                  prepPrompt.files[k].lines[i].lineNum =
                      prepChanges[k].addedLines[i].newLineNumber

\* a hunk that starts at new line 0: its two added lines, numbered 0 and 1,
\* are printed with 1 and with unknown
C18_ZeroStartWitness ==
    /\ prepState = "done"
    /\ \E k \in 1..Len(prepChanges) :
          /\ Len(prepChanges[k].addedLines) = 2
          /\ prepChanges[k].addedLines[1].newLineNumber = <<0>>
          /\ prepChanges[k].addedLines[2].newLineNumber = <<1>>
          /\ prepPrompt.files[k].lines[1].lineNum = <<1>>
          /\ prepPrompt.files[k].lines[2].lineNum = <<>>

(***************************************************************************)
(* Properties of reviewPullRequest.                                        *)
(***************************************************************************)
\* the run has returned a completed result, resp. a skipped one
Completed == pc = "returned" /\ "success" \in DOMAIN result
EndedSkipped == pc = "returned" /\ "skipped" \in DOMAIN result

\* positions in calls of the inline-comment posts, of those for the i-th
\* proposed comment, and of the calls of one operation
PostCalls == {p \in 1..Len(calls) : calls[p].op = "postReviewComment"}
PostCallsFor(i) == {p \in PostCalls : calls[p].comment = i}
CallsOf(op) == {p \in 1..Len(calls) : calls[p].op = op}

\* the proposed comments whose iteration is over
Handled == {i \in 1..Len(llmComments) : i < idx}

\* some existing comment by a bot stands at (filename, line)
BotCommentAt(filename, line) ==
    \E p \in 1..Len(existingComments) :
        /\ existingComments[p].path = filename
        /\ existingComments[p].line = line
        /\ \E t \in 1..Len(existingComments[p].user.login) :
               existingComments[p].user.login[t] = "bot"

\* the i-th proposed comment is in the skipped list as it is (no error)
SkippedAsIs(i) ==
    \E q \in 1..Len(skippedComments) : skippedComments[q] = llmComments[i]

\* the i-th proposed comment is in the skipped list with the error message
SkippedWithError(i) ==
    \E q \in 1..Len(skippedComments) :
        /\ "error" \in DOMAIN skippedComments[q]
        /\ skippedComments[q] = WithError(llmComments[i], PostError)

\* C1: the proposed comments are handled in list order; one for which an
\* existing bot comment stands at its (filename, line) gets no post call
\* and is put in the skipped list; any other gets exactly one post call,
\* made with the head commit id, its filename and its line.
C1_DedupOrPostOnceInOrder ==
    /\ \A p, q \in PostCalls : p < q => calls[p].comment < calls[q].comment
    /\ \A p \in PostCalls : calls[p].comment <= idx
    /\ Completed => Handled = 1..Len(llmComments)
    /\ \A i \in Handled :
          LET c == llmComments[i]
          IN  IF BotCommentAt(c.filename[1], c.line[1])
              THEN PostCallsFor(i) = {} /\ SkippedAsIs(i)
              ELSE /\ Cardinality(PostCallsFor(i)) = 1
                   /\ \A p \in PostCallsFor(i) :
                         /\ calls[p].commit_id = HeadSha
                         /\ calls[p].path = c.filename[1]
                         /\ calls[p].line = c.line[1]

C1_Witness ==
    /\ Completed
    /\ Len(llmComments) = 3
    /\ BotCommentAt(llmComments[1].filename[1], llmComments[1].line[1])
    /\ ~BotCommentAt(llmComments[2].filename[1], llmComments[2].line[1])
    /\ \E p \in 1..Len(existingComments) :
          /\ existingComments[p].path = llmComments[3].filename[1]
          /\ existingComments[p].line = llmComments[3].line[1]
    /\ ~BotCommentAt(llmComments[3].filename[1], llmComments[3].line[1])
    /\ Cardinality(PostCalls) = 2

\* C2: one run never posts more than one inline comment on the same
\* (filename, line): no two posts that succeeded share path and line.
C2_NoTwoPostsOnSameLine ==
    \A p, q \in PostCalls :
        ( /\ p < q
          /\ calls[p].outcome = "ok"
          /\ calls[q].outcome = "ok" )
        => ~(calls[p].path = calls[q].path /\ calls[p].line = calls[q].line)

\* C3: a comment whose post fails is recorded in the skipped list with the
\* error message; the failure does not abort the run (no run that has made
\* a post call ends with an error, every later comment is handled), and
\* the run returns a completed result with success = true.
C3_PostFailureIsIsolated ==
    /\ \A p \in PostCalls :
          calls[p].outcome = "error" => SkippedWithError(calls[p].comment)
    /\ PostCalls # {} => pc # "thrown"
    /\ (pc = "returned" /\ PostCalls # {}) =>
          /\ Completed
          /\ result.success = TRUE
          /\ \A i \in 1..Len(llmComments) :
                \/ PostCallsFor(i) # {}
                \/ SkippedAsIs(i)

C3_Witness ==
    /\ Completed
    /\ Len(llmComments) = 3
    /\ \E p \in PostCallsFor(1) : calls[p].outcome = "error"
    /\ \E p \in PostCallsFor(2) : calls[p].outcome = "ok"
    /\ SkippedAsIs(3)

\* C4: a run ends skipped exactly when the first failing precondition says
\* so, in the order disabled, no-changes, all-excluded, no-additions, and a
\* run that ends skipped has made no call to a collaborator.
C4_ShortCircuitOrderAndNoCalls ==
    /\ EndedSkipped =>
          /\ calls = <<>>
          /\ result.reason =
                IF ~enabled THEN "disabled"
                ELSE IF Len(parseDiff(diffText)) = 0 THEN "no-changes"
                ELSE IF Len(filterFiles(parseDiff(diffText), excludePatterns)) = 0
                     THEN "all-excluded"
                ELSE "no-additions"
          /\ \/ ~enabled
             \/ Len(extractReviewableChanges(
                        filterFiles(parseDiff(diffText), excludePatterns))) = 0
    /\ calls # <<>> =>
          /\ enabled
          /\ Len(extractReviewableChanges(
                     filterFiles(parseDiff(diffText), excludePatterns))) > 0
    /\ pc # "start" => (EndedSkipped \/ calls # <<>>)

C4_Witness ==
    /\ EndedSkipped
    /\ result.reason = "all-excluded"
    /\ enabled
    /\ Len(parseDiff(diffText)) = 2
    /\ Len(extractReviewableChanges(parseDiff(diffText))) = 2

\* C5: a failure of getPullRequest, getReviewComments or the generation
\* service is propagated to the caller, and at that point no inline comment
\* and no aggregate review has been posted; the generation service is
\* invoked at most once, and only after both fetches have succeeded.
C5_FetchFailuresPropagate ==
    /\ \A p \in CallsOf("getPullRequest") \cup CallsOf("getReviewComments")
                   \cup CallsOf("reviewCode") :
          calls[p].outcome = "error" =>
              /\ pc = "thrown"
              /\ result = NoResult
              /\ PostCalls = {}
              /\ CallsOf("postReview") = {}
    /\ pc = "thrown" => calls[Len(calls)].outcome = "error"
    /\ Cardinality(CallsOf("reviewCode")) <= 1
    /\ \A p \in CallsOf("reviewCode") :
          /\ \E q \in 1..(p - 1) :
                calls[q].op = "getPullRequest" /\ calls[q].outcome = "ok"
          /\ \E q \in 1..(p - 1) :
                calls[q].op = "getReviewComments" /\ calls[q].outcome = "ok"

C5_Witness ==
    /\ pc = "thrown"
    /\ \E p \in CallsOf("reviewCode") : calls[p].outcome = "error"

C7_DelayBetweenPosts ==
    \A p \in PostCalls : (p + 1) \notin PostCalls

\* C7 for the posts that succeed: a post call that follows a successful
\* post call is separated from it by the timer
C7_DelayAfterSuccessfulPost ==
    \A p \in PostCalls :
        (calls[p].outcome = "ok" /\ p < Len(calls)) => calls[p + 1].op = "setTimeout"

\* the comments of the list at (path, line) written by a login that
\* contains bot, by their position
BotHits(existing, path, line) ==
    {p \in 1..Len(existing) :
        /\ existing[p].path = path
        /\ existing[p].line = line
        /\ \E i \in 1..Len(existing[p].user.login) : existing[p].user.login[i] = "bot"}

\* C19: findExistingComment returns the first element of the list, in the
\* order given, whose path is the filename, whose line is the line and
\* whose author's login contains bot (case-sensitive), and none when no
\* element fits, in particular when only other authors wrote at (path,
\* line); the list is never modified.
C19_FirstBotCommentAt ==
    /\ [](\A path \in {FileA, FileB} : \A line \in 1..2 :
            LET hits == BotHits(existingComments, path, line)
            IN  findExistingComment(existingComments, path, line) =
                   IF hits = {} THEN <<>>
                   ELSE <<existingComments[CHOOSE p \in hits : \A q \in hits : p <= q]>>)
    /\ [][existingComments # <<>> => existingComments' = existingComments]_vars

\* a comment is proposed at a line where another author wrote first and two
\* bots after: the run skips it for the first bot's comment
C19_Witness ==
    /\ Len(existingComments) = 2
    /\ existingComments[1] = Existing(FileA, 1, <<"bot", "-2">>)
    /\ existingComments[2] = Existing(FileA, 1, <<"review-", "bot">>)
    /\ skippedComments # <<>>
    /\ findExistingComment(existingComments, FileA, 1) = <<existingComments[1]>>

\* only an author whose login holds Bot, not bot, wrote at the line: the
\* comment proposed there is posted
C19_OtherAuthorWitness ==
    /\ existingComments = <<Existing(FileA, 1, <<"alice-", "Bot">>)>>
    /\ findExistingComment(existingComments, FileA, 1) = <<>>
    /\ \E k \in 1..Len(postedComments) :
          postedComments[k].filename = <<FileA>> /\ postedComments[k].line = <<1>>

\* a skipped result: skipped and a reason, no counts
IsSkippedResult(r) ==
    /\ DOMAIN r = {"skipped", "reason"}
    /\ r.skipped = TRUE
    /\ r.reason \in {"disabled", "no-changes", "all-excluded", "no-additions"}

\* a completed result: success, the five counts and the two lists
IsCompletedResult(r) ==
    /\ DOMAIN r = {"success", "filesReviewed", "commentsGenerated", "commentsPosted",
                   "commentsSkipped", "customRuleViolations", "postedComments",
                   "skippedComments"}
    /\ r.success = TRUE

\* C20: every value that reviewPullRequest returns is either a skipped
\* result or a completed result, never both and never neither.
C20_SkippedOrCompleted ==
    pc = "returned" =>
        /\ IsSkippedResult(result) \/ IsCompletedResult(result)
        /\ ~(IsSkippedResult(result) /\ IsCompletedResult(result))

\* a completed run that posted a comment and skipped another
C20_Witness ==
    /\ pc = "returned"
    /\ IsCompletedResult(result)
    /\ result.commentsPosted >= 1
    /\ result.commentsSkipped >= 1
    /\ result.commentsGenerated = 2

\* a run that ended before any call, with its reason
C20_SkippedWitness ==
    /\ pc = "returned"
    /\ IsSkippedResult(result)
    /\ result.reason = "no-additions"
    /\ calls = <<>>

\* C21: a proposed comment skipped for an existing bot comment at its
\* (filename, line) stands in the skipped list with the reason already
\* exists, so every entry of the skipped list carries a reason: that
\* marker, or the error message of a failed post.
C21_EverySkippedEntryHasReason ==
    \A q \in 1..Len(skippedComments) :
        \/ /\ "reason" \in DOMAIN skippedComments[q]
           /\ skippedComments[q].reason = "already exists"
        \/ "error" \in DOMAIN skippedComments[q]

\* the entries that come from a failed post do carry the error message
C21_FailedPostEntryHasError ==
    \A i \in 1..Len(llmComments) :
        (\E p \in PostCallsFor(i) : calls[p].outcome = "error") => SkippedWithError(i)

\* C22: checkCustomRules terminates for every file and every list of
\* rules whose patterns compile, a pattern that matches the empty string
\* included.  The text is finite, so the search of a rule ends if and only
\* if each match moves lastIndex forward; a match that leaves lastIndex
\* where it stands is found again by the next exec, without end.
C22_EachMatchAdvancesSearch ==
    [][(rstate = "checking" /\ violations' # violations) => lastIndex' > lastIndex]_vars

\* C22 for the patterns that match no empty string
C22_NonEmptyMatchAdvancesSearch ==
    [][(/\ rstate = "checking"
        /\ violations' # violations
        /\ customRules[ruleIdx].pattern # <<>>) => lastIndex' > lastIndex]_vars

\* the empty pattern has matched at index 0 as often as the model follows it
C22_EmptyPatternWitness ==
    /\ rstate = "checking"
    /\ ruleIdx <= Len(customRules)
    /\ customRules[ruleIdx].pattern = <<>>
    /\ lastIndex = 0
    /\ Len(violations) = MaxViolations
    /\ \A k \in 1..Len(violations) : violations[k].match = <<>>

(***************************************************************************)
(* Further properties of parseDiff.                                        *)
(***************************************************************************)
\* the step reads a line that starts with the file-header marker and does
\* not match the header pattern
ReadsUnmatchedHeader ==
    \E line \in DiffLineSet :
        IsFileHeader(line) /\ ~HeaderMatches(line) /\ ReadLine(line)

\* C23: when a file-header line does not match the a/<path> b/<path>
\* pattern, no file is open afterwards, so that what follows up to the
\* next valid header is recorded in no FileChange, in particular not in
\* the one that was open before.
C23_UnmatchedHeaderClosesFile ==
    [][ReadsUnmatchedHeader => parser'.currentFile = Null]_vars

\* a content line read after an unmatched header has gone to the file
\* that was open before it, which stands in the result already
C23_StaleFileWitness ==
    /\ pstate = "scanning"
    /\ parser.files = <<1>>
    /\ parser.currentFile = 1
    /\ Len(parser.fileObjs) = 1
    /\ Len(parser.fileObjs[1].changes) = 2

\* C24: a file whose section holds no hunk header gives a FileChange with
\* no hunks and no changes, wherever it stands in the diff, also after a
\* file that has hunks: the lines between its header and its first hunk
\* header go to no file and to no hunk.
C24_NoHunkNoChanges ==
    \A id \in 1..Len(parser.fileObjs) :
        parser.fileObjs[id].hunks = <<>> => parser.fileObjs[id].changes = <<>>

\* the second file has no hunk, yet a change; the line stands in the hunk
\* of the first file
C24_StaleHunkWitness ==
    /\ Len(parser.fileObjs) = 2
    /\ parser.fileObjs[1].hunks = <<1>>
    /\ parser.fileObjs[1].changes = <<>>
    /\ parser.fileObjs[2].hunks = <<>>
    /\ Len(parser.fileObjs[2].changes) = 1
    /\ parser.hunkObjs[1].lines = parser.fileObjs[2].changes

\* the lines of the hunks of a file, in order
HunkLinesOf(ps, f) == Concat([k \in 1..Len(f.hunks) |-> ps.hunkObjs[f.hunks[k]].lines])

\* C25: for every FileChange its flat change sequence is the
\* concatenation, in order, of the line sequences of its own hunks.
C25_ChangesAreHunkLines ==
    \A id \in 1..Len(parser.fileObjs) :
        parser.fileObjs[id].changes = HunkLinesOf(parser, parser.fileObjs[id])

\* a file with two hunks, whose changes are the lines of its two hunks
C25_Witness ==
    /\ pstate = "returned"
    /\ Len(parser.fileObjs) = 1
    /\ Len(parser.fileObjs[1].hunks) = 2
    /\ Len(parser.fileObjs[1].changes) = 2
    /\ parser.fileObjs[1].changes = HunkLinesOf(parser, parser.fileObjs[1])

\* C26: parseDiff returns one FileChange per file-header line that matches
\* the pattern, in input order: no FileChange stands twice in the result,
\* and one that stands in the result is no longer the file that later
\* lines are written to.
C26_OneFileChangePerHeader ==
    /\ \A i, j \in 1..Len(parser.files) : i # j => parser.files[i] # parser.files[j]
    /\ pstate = "scanning" =>
          \A i \in 1..Len(parser.files) : parser.files[i] # parser.currentFile
    /\ pstate = "returned" =>
          parser.files = [k \in 1..Len(parser.fileObjs) |-> k]

\* the one FileChange stands twice in the result returned
C26_TwiceWitness ==
    /\ pstate = "returned"
    /\ Len(parser.fileObjs) = 1
    /\ parser.files = <<1, 1>>

\* the step reads, with a file and a hunk open, a line whose first
\* character is + (resp. -)
ReadsBodyLine(marker) ==
    /\ parser.currentFile # Null
    /\ parser.currentHunk # Null
    /\ \E line \in DiffLineSet : At(line, 1) = marker /\ ReadLine(line)

\* C28: while a file and a hunk are open every line whose first character
\* is + is recorded as one addition and every line whose first character
\* is - as one deletion, whatever follows (content that starts with ++ or
\* with -- included), and each advances its counter by one.
C28_NoBodyLineDiscarded ==
    [][ /\ ReadsBodyLine("+") =>
             /\ parser'.fileObjs[parser.currentFile].additions =
                   parser.fileObjs[parser.currentFile].additions + 1
             /\ parser'.newLineNum = parser.newLineNum + 1
        /\ ReadsBodyLine("-") =>
             /\ parser'.fileObjs[parser.currentFile].deletions =
                   parser.fileObjs[parser.currentFile].deletions + 1
             /\ parser'.oldLineNum = parser.oldLineNum + 1 ]_vars

\* C28 for the lines that do not start with +++ or ---
ReadsPlainBodyLine(marker) ==
    /\ parser.currentFile # Null
    /\ parser.currentHunk # Null
    /\ \E line \in DiffLineSet :
          At(line, 1) = marker /\ ~IsMetadata(line) /\ ReadLine(line)

C28_PlainBodyLineRecorded ==
    [][ /\ ReadsPlainBodyLine("+") =>
             /\ parser'.fileObjs[parser.currentFile].additions =
                   parser.fileObjs[parser.currentFile].additions + 1
             /\ parser'.newLineNum = parser.newLineNum + 1
        /\ ReadsPlainBodyLine("-") =>
             /\ parser'.fileObjs[parser.currentFile].deletions =
                   parser.fileObjs[parser.currentFile].deletions + 1
             /\ parser'.oldLineNum = parser.oldLineNum + 1 ]_vars

\* the entries of s at the positions of the set P, in order
RECURSIVE Restrict(_, _, _)
Restrict(s, P, from) ==
    IF from > Len(s) THEN <<>>
    ELSE (IF from \in P THEN <<s[from]>> ELSE <<>>) \o Restrict(s, P, from + 1)

\* the entry of the skipped list is the proposed comment, with or without
\* an error message added
IsSkippedEntryOf(entry, comment) ==
    /\ entry.filename = comment.filename
    /\ entry.line = comment.line
    /\ entry.severity = comment.severity
    /\ entry.category = comment.category
    /\ entry.message = comment.message

\* C27: in a completed run every comment the normalizer returned stands in
\* exactly one of the posted list and the skipped list: the posted list is
\* the generated list restricted to some positions, in order, the skipped
\* list holds the comments at the other positions, and commentsPosted +
\* commentsSkipped = commentsGenerated.
C27_PostedAndSkippedPartitionGenerated ==
    Completed =>
        /\ result.commentsPosted + result.commentsSkipped = result.commentsGenerated
        /\ result.commentsGenerated = Len(llmComments)
        /\ \E P \in SUBSET (1..Len(llmComments)) :
              /\ result.postedComments = Restrict(llmComments, P, 1)
              /\ LET rest == Restrict(llmComments, (1..Len(llmComments)) \ P, 1)
                 IN  /\ Len(result.skippedComments) = Len(rest)
                     /\ \A q \in 1..Len(rest) :
                           IsSkippedEntryOf(result.skippedComments[q], rest[q])

\* three comments: one skipped for an existing comment, one posted, one
\* whose post failed
C27_Witness ==
    /\ Completed
    /\ result.commentsGenerated = 3
    /\ result.commentsPosted = 1
    /\ result.commentsSkipped = 2
    /\ \E q \in 1..2 : "error" \in DOMAIN result.skippedComments[q]
    /\ \E q \in 1..2 : "error" \notin DOMAIN result.skippedComments[q]

(***************************************************************************)
(* Further properties of extractCommentsFromText.                          *)
(***************************************************************************)
\* the positions of the integers that follow a line: token of the line
LineIndicatorNumbers(line) ==
    { SkipWhite(line, p + 1) : p \in {q \in 1..Len(line) : line[q].k = "line:"} }
        \cap {p \in 1..Len(line) : line[p].k = "num"}

\* one line of the scan, as it is described: a file-indicator line opens a
\* candidate; a line: token followed by an integer sets the candidate's
\* line; every other non-blank line is appended to its message
DescribedLine(acc, line) ==
    IF \E p \in 1..Len(line) : line[p].k \in {"filename:", "File:"}
    THEN [ comments |-> acc.comments \o acc.current,
           current  |-> << [ k          |-> "obj",
                             filename   |-> <<FilenameOf(line)>>,
                             line       |-> <<1>>,
                             severity   |-> <<"medium">>,
                             category   |-> <<"general">>,
                             message    |-> <<<<>>>>,
                             suggestion |-> <<<<>>>> ] >> ]
    ELSE IF acc.current = <<>> THEN acc
    ELSE IF LineIndicatorNumbers(line) # {}
    THEN LET m == CHOOSE p \in LineIndicatorNumbers(line) :
                      \A q \in LineIndicatorNumbers(line) : p <= q
         IN  [acc EXCEPT !.current[1].line = <<ParseInt(line[m].v)>>]
    ELSE IF TrimTokens(line) # <<>>
    THEN [acc EXCEPT !.current[1].message =
              <<@[1] \o TrimTokens(line) \o <<Tok("ws")>>>>]
    ELSE acc

RECURSIVE DescribedLines(_, _)
DescribedLines(acc, lines) ==
    IF lines = <<>> THEN acc
    ELSE DescribedLines(DescribedLine(acc, Head(lines)), Tail(lines))

DescribedComments(text) ==
    LET acc == DescribedLines([comments |-> <<>>, current |-> <<>>], SplitLines(text))
    IN  acc.comments \o acc.current

\* C29: when structured parsing fails the result is one comment per line
\* that holds a file-indicator token, in order, cut to maxComments; each
\* starts with line 1, severity medium, category general; a later line
\* that holds line: followed by an integer sets the candidate's line;
\* every other non-blank line is appended to the candidate's message; the
\* lines before the first file-indicator line contribute nothing.
C29_ExtractorFollowsDescription ==
    (nstate = "returned" /\ ~StructuredPath(rawResponse))
    => /\ Len(normalized) <= limit
       /\ \A k \in 1..Len(normalized) :
             normalized[k] = DescribedComments(rawResponse)[k]
       /\ Len(normalized) < limit =>
             Len(normalized) = Len(DescribedComments(rawResponse))

\* C29 for the texts in which every line that holds line: holds an integer
\* after it
C29_ExtractorFollowsDescriptionPlain ==
    ( /\ nstate = "returned"
      /\ ~StructuredPath(rawResponse)
      /\ \A k \in 1..Len(SplitLines(rawResponse)) :
            LET line == SplitLines(rawResponse)[k]
            IN  (\E p \in 1..Len(line) : line[p].k = "line:")
                    => LineIndicatorNumbers(line) # {} )
    => normalized = Slice(DescribedComments(rawResponse), limit)

\* a line that holds line: and no integer has left no trace in the comment
C29_DroppedLineWitness ==
    /\ nstate = "returned"
    /\ limit >= 1
    /\ Len(SplitLines(rawResponse)) = 3
    /\ \E p \in 1..Len(SplitLines(rawResponse)[2]) :
          SplitLines(rawResponse)[2][p].k = "line:"
    /\ Len(normalized) = 1
    /\ normalized[1].line = <<1>>
    /\ normalized[1].message = <<<<Word("m"), Tok("ws")>>>>

(***************************************************************************)
(* The Slack backend: POST /slack/interactive (slack-backend/index.js).    *)
(* One request is handled; each action runs the handler from the           *)
(* settlement of one await up to the request it submits next.              *)
(***************************************************************************)
MaxPulls == 2

\* logins and Slack user names, as characters
NameSet ==
    { <<"a", "l">>, <<"A", "l">>, <<"b", "o">>, <<"B", "O">> }

ActionIdSet == {"approve_action", "comment_action", "other_action"}

\* action.value with its prefix removed: '' or the digits of a number
ValueSet == {<<>>} \cup { <<n>> : n \in 1..MaxPulls }

PayloadSet ==
    [action_id : ActionIdSet, value : ValueSet, user : NameSet]

LowerChar(c) ==
    CASE c = "A" -> "a"
      [] c = "B" -> "b"
      [] c = "O" -> "o"
      [] OTHER -> c

toLowerCase(s) == [i \in 1..Len(s) |-> LowerChar(s[i])]

\* message?.text is absent from the object approveGitHubPR is given
extractPRNumber(slackPayload) == <<>>

\* slackPayload.prNumber || extractPRNumber(slackPayload) || 1
ApprovedNumber(prNumber) ==
    IF prNumber # <<>> THEN prNumber[1]
    ELSE IF extractPRNumber([prNumber |-> prNumber]) # <<>>
         THEN extractPRNumber([prNumber |-> prNumber])[1]
         ELSE 1

ApproveRequest(prNumber) ==
    [kind |-> "review", pr |-> ApprovedNumber(prNumber), event |-> "APPROVE"]

CommentRequest(prNumber) ==
    [kind |-> "comment", pr |-> prNumber, event |-> "none"]

\* prAuthor && prAuthor.toLowerCase() === user.name.toLowerCase()
IsOwnPull(author, user) ==
    /\ author # <<>>
    /\ toLowerCase(author[1]) = toLowerCase(user)

SlackInit ==
    /\ pulls \in [1..MaxPulls -> NameSet]
    /\ payload \in PayloadSet
    /\ prAuthor = <<>>
    /\ approveResult = "none"
    /\ githubRequests = <<>>
    /\ slackTexts = <<>>
    /\ httpStatus = 0
    /\ slackPc = "received"

\* the part of the approve branch that follows the fetch
AfterFetch(author) ==
    /\ prAuthor' = author
    /\ IF IsOwnPull(author, payload.user)
       THEN /\ slackTexts' = Append(slackTexts, [kind |-> "own"])
            /\ slackPc' = "replyingOwn"
            /\ UNCHANGED githubRequests
       ELSE /\ githubRequests' = Append(githubRequests, ApproveRequest(payload.value))
            /\ slackPc' = "approving"
            /\ UNCHANGED slackTexts
    /\ UNCHANGED <<pulls, payload, approveResult, httpStatus,
                   parseVars, normVars, reviewVars, rulesVars, prepVars>>

\* the details of the pull request arrive
FetchPullSucceeds ==
    /\ slackPc = "received"
    /\ payload.action_id = "approve_action"
    /\ payload.value # <<>>
    /\ AfterFetch(<<pulls[payload.value[1]]>>)

\* the request fails, or its answer holds no user.login: prAuthor stays null
FetchPullFails ==
    /\ slackPc = "received"
    /\ payload.action_id = "approve_action"
    /\ AfterFetch(<<>>)

OwnReplySent ==
    /\ slackPc = "replyingOwn"
    /\ httpStatus' = 200
    /\ slackPc' = "done"
    /\ UNCHANGED <<pulls, payload, prAuthor, approveResult, githubRequests, slackTexts,
                   parseVars, normVars, reviewVars, rulesVars, prepVars>>

ApproveSucceeds ==
    /\ slackPc = "approving"
    /\ approveResult' = "success"
    /\ slackTexts' = Append(slackTexts, [kind |-> "approved"])
    /\ slackPc' = "replying"
    /\ UNCHANGED <<pulls, payload, prAuthor, githubRequests, httpStatus,
                   parseVars, normVars, reviewVars, rulesVars, prepVars>>

\* the hosting service refuses the review
ApproveFails ==
    /\ slackPc = "approving"
    /\ approveResult' = "failure"
    /\ slackTexts' = Append(slackTexts, [kind |-> "failed"])
    /\ slackPc' = "replying"
    /\ UNCHANGED <<pulls, payload, prAuthor, githubRequests, httpStatus,
                   parseVars, normVars, reviewVars, rulesVars, prepVars>>

\* a 422 with neither errors nor message: errorMessage.includes raises
ApproveRaises ==
    /\ slackPc = "approving"
    /\ httpStatus' = 500
    /\ slackPc' = "done"
    /\ UNCHANGED <<pulls, payload, prAuthor, approveResult, githubRequests, slackTexts,
                   parseVars, normVars, reviewVars, rulesVars, prepVars>>

HandleCommentAction ==
    /\ slackPc = "received"
    /\ payload.action_id = "comment_action"
    /\ githubRequests' = Append(githubRequests, CommentRequest(payload.value))
    /\ slackPc' = "commenting"
    /\ UNCHANGED <<pulls, payload, prAuthor, approveResult, slackTexts, httpStatus,
                   parseVars, normVars, reviewVars, rulesVars, prepVars>>

CommentSucceeds ==
    /\ slackPc = "commenting"
    /\ approveResult' = "success"
    /\ slackTexts' = Append(slackTexts, [kind |-> "requested"])
    /\ slackPc' = "replying"
    /\ UNCHANGED <<pulls, payload, prAuthor, githubRequests, httpStatus,
                   parseVars, normVars, reviewVars, rulesVars, prepVars>>

CommentFails ==
    /\ slackPc = "commenting"
    /\ approveResult' = "failure"
    /\ slackTexts' = Append(slackTexts, [kind |-> "failed"])
    /\ slackPc' = "replying"
    /\ UNCHANGED <<pulls, payload, prAuthor, githubRequests, httpStatus,
                   parseVars, normVars, reviewVars, rulesVars, prepVars>>

ReplySent ==
    /\ slackPc = "replying"
    /\ httpStatus' = 200
    /\ slackPc' = "done"
    /\ UNCHANGED <<pulls, payload, prAuthor, approveResult, githubRequests, slackTexts,
                   parseVars, normVars, reviewVars, rulesVars, prepVars>>

\* a post to response_url fails: the outer catch answers 500
ReplyFails ==
    /\ slackPc \in {"replying", "replyingOwn"}
    /\ httpStatus' = 500
    /\ slackPc' = "done"
    /\ UNCHANGED <<pulls, payload, prAuthor, approveResult, githubRequests, slackTexts,
                   parseVars, normVars, reviewVars, rulesVars, prepVars>>

\* neither branch is taken
HandleOtherAction ==
    /\ slackPc = "received"
    /\ payload.action_id \notin {"approve_action", "comment_action"}
    /\ httpStatus' = 200
    /\ slackPc' = "done"
    /\ UNCHANGED <<pulls, payload, prAuthor, approveResult, githubRequests, slackTexts,
                   parseVars, normVars, reviewVars, rulesVars, prepVars>>

SlackNext ==
    \/ FetchPullSucceeds
    \/ FetchPullFails
    \/ OwnReplySent
    \/ ApproveSucceeds
    \/ ApproveFails
    \/ ApproveRaises
    \/ HandleCommentAction
    \/ CommentSucceeds
    \/ CommentFails
    \/ ReplySent
    \/ ReplyFails
    \/ HandleOtherAction

InitSlack == SlackInit /\ ParseIdle /\ NormIdle /\ ReviewIdle /\ RulesIdle /\ PrepIdle

SpecSlack == InitSlack /\ [][SlackNext]_vars

\* C30: no APPROVE review is submitted for a pull request whose author's
\* login equals, case-insensitively, the name of the Slack user who
\* clicked, whether or not the pull request's details could be fetched.
C30_NeverApprovesOwnPull ==
    \A i \in 1..Len(githubRequests) :
        githubRequests[i].event = "APPROVE"
            => toLowerCase(pulls[githubRequests[i].pr]) # toLowerCase(payload.user)

\* C30, when the details were fetched: the review goes to the pull request
\* that was checked, and its author is not the user who clicked.
C30_NeverApprovesOwnPullWhenFetched ==
    \A i \in 1..Len(githubRequests) :
        (githubRequests[i].event = "APPROVE" /\ prAuthor # <<>>)
            => /\ githubRequests[i].pr = payload.value[1]
               /\ toLowerCase(pulls[githubRequests[i].pr]) # toLowerCase(payload.user)

\* the click of the author is refused after a successful fetch, the names
\* differing in case
C30_RefusedWitness ==
    /\ slackPc = "done"
    /\ prAuthor # <<>>
    /\ prAuthor[1] # payload.user
    /\ slackTexts = <<[kind |-> "own"]>>
    /\ githubRequests = <<>>

\* the fetch failed and the review of the author's own pull request was
\* submitted and accepted
C30_FetchFailedWitness ==
    /\ slackPc = "done"
    /\ payload.value # <<>>
    /\ prAuthor = <<>>
    /\ approveResult = "success"
    /\ Len(githubRequests) = 1
    /\ toLowerCase(pulls[githubRequests[1].pr]) = toLowerCase(payload.user)

====
